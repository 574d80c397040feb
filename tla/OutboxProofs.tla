---------------------------- MODULE OutboxProofs ----------------------------
(***************************************************************************)
(* What holds of the queue of Outbox for any number of handlers, jobs,     *)
(* parts, attempts, faults and owner decisions.  IInv is inductive as long *)
(* as Safe holds: the queue never duplicates a message on its own.  Where  *)
(* no job outlives its TTL CalmInv is inductive as well: messages leave in *)
(* order, and every step is one of DeliveryPromise or nothing to it.       *)
(***************************************************************************)
EXTENDS OutboxInvariant, TLAPS

-----------------------------------------------------------------------------
(* What the statements and the moves of a sender do, field by field *)

\* Every statement of OutboxRepository that updates a row turns it into a row.
LEMMA RowOperators ==
    ASSUME NEW r \in Row
    PROVE  /\ Leased(r) \in Row /\ MarkSending(r) \in Row /\ MarkDone(r) \in Row
           /\ MarkAmbiguous(r) \in Row /\ MarkFailed(r) \in Row
           /\ Defer(r) \in Row /\ MarkExpired(r) \in Row /\ Requeue(r) \in Row
           /\ RetryNow(r) \in Row /\ Resolve(r) \in Row /\ Archive(r) \in Row
           /\ ComesDue(r) \in Row /\ LosesLease(r) \in Row /\ Ages(r) \in Row
           /\ \A cost \in Nat, due \in BOOLEAN : MarkRetry(r, cost, due) \in Row
           /\ \A wasMarked \in BOOLEAN : Recover(r, wasMarked) \in Row
<1>0. /\ r.attempts \in Nat
      /\ r.attempts + 1 \in Nat
      /\ \A n \in Nat : r.attempts + n \in Nat
  BY DEF Row
<1> USE DEF Row, States
<1>1. Leased(r) \in Row /\ MarkSending(r) \in Row
  BY DEF Leased, MarkSending
<1>2. MarkDone(r) \in Row
  BY DEF MarkDone
<1>3. MarkAmbiguous(r) \in Row
  BY <1>0, Zenon DEF MarkAmbiguous
<1>4. MarkFailed(r) \in Row
  BY <1>0, Zenon DEF MarkFailed
<1>5. Defer(r) \in Row /\ MarkExpired(r) \in Row
  BY DEF Defer, MarkExpired
<1>6. Requeue(r) \in Row /\ RetryNow(r) \in Row
  BY DEF Requeue, RetryNow
<1>7. Resolve(r) \in Row /\ Archive(r) \in Row
  BY DEF Resolve, Archive
<1>8. ASSUME NEW cost \in Nat, NEW due \in BOOLEAN
      PROVE  MarkRetry(r, cost, due) \in Row
  BY <1>0, Zenon DEF MarkRetry
<1>9. ASSUME NEW wasMarked \in BOOLEAN
      PROVE  Recover(r, wasMarked) \in Row
  BY <1>3, <1>6 DEF Recover
<1>10. ComesDue(r) \in Row /\ LosesLease(r) \in Row /\ Ages(r) \in Row
  BY DEF ComesDue, LosesLease, Ages
<1>. HIDE DEF Row, States
<1>11. QED
  BY <1>1, <1>2, <1>3, <1>4, <1>5, <1>6, <1>7, <1>8, <1>9, <1>10

\* No statement changes what a job is.
SameJob(r, q) == q.kind = r.kind /\ q.last = r.last
Becomes(r, q, state, marked) == SameJob(r, q) /\ q.state = state /\ q.marked = marked

\* The columns each statement decides: the ones the properties look at.
LEMMA RowEffects ==
    ASSUME NEW r \in Row
    PROVE  /\ Becomes(r, Leased(r), "inflight", r.marked) /\ Leased(r).lease = "held"
           /\ Becomes(r, MarkSending(r), r.state, TRUE) /\ MarkSending(r).lease = r.lease
           /\ Becomes(r, MarkDone(r), "done", FALSE)
           /\ Becomes(r, MarkAmbiguous(r), "ambiguous", r.marked)
           /\ Becomes(r, MarkFailed(r), "failed", r.marked)
           /\ Becomes(r, Defer(r), "pending", FALSE)
           /\ Becomes(r, MarkExpired(r), "expired", r.marked)
           /\ Becomes(r, Requeue(r), "pending", r.marked)
           /\ Becomes(r, RetryNow(r), "pending", r.marked)
           /\ Becomes(r, Resolve(r), "done", r.marked)
           /\ Becomes(r, Archive(r), "archived", r.marked)
           /\ Becomes(r, ComesDue(r), r.state, r.marked) /\ ComesDue(r).lease = r.lease
           /\ Becomes(r, LosesLease(r), r.state, r.marked)
           /\ Becomes(r, Ages(r), r.state, r.marked) /\ Ages(r).lease = r.lease
           /\ \A cost \in Nat, due \in BOOLEAN : Becomes(r, MarkRetry(r, cost, due), "pending", FALSE)
<1> USE DEF Becomes, SameJob, Row
<1>1. Becomes(r, Leased(r), "inflight", r.marked) /\ Leased(r).lease = "held"
  BY DEF Leased
<1>2. Becomes(r, MarkSending(r), r.state, TRUE) /\ MarkSending(r).lease = r.lease
  BY DEF MarkSending
<1>3. Becomes(r, MarkDone(r), "done", FALSE)
  BY DEF MarkDone
<1>4. Becomes(r, MarkAmbiguous(r), "ambiguous", r.marked)
  BY DEF MarkAmbiguous
<1>5. Becomes(r, MarkFailed(r), "failed", r.marked)
  BY DEF MarkFailed
<1>6. Becomes(r, Defer(r), "pending", FALSE)
  BY DEF Defer
<1>7. Becomes(r, MarkExpired(r), "expired", r.marked)
  BY DEF MarkExpired
<1>8. Becomes(r, Requeue(r), "pending", r.marked)
  BY DEF Requeue
<1>9. Becomes(r, RetryNow(r), "pending", r.marked)
  BY DEF RetryNow
<1>10. Becomes(r, Resolve(r), "done", r.marked)
  BY DEF Resolve
<1>11. Becomes(r, Archive(r), "archived", r.marked)
  BY DEF Archive
<1>12. Becomes(r, ComesDue(r), r.state, r.marked) /\ ComesDue(r).lease = r.lease
  BY DEF ComesDue
<1>13. Becomes(r, LosesLease(r), r.state, r.marked)
  BY DEF LosesLease
<1>14. Becomes(r, Ages(r), r.state, r.marked) /\ Ages(r).lease = r.lease
  BY DEF Ages
<1>15. \A cost \in Nat, due \in BOOLEAN : Becomes(r, MarkRetry(r, cost, due), "pending", FALSE)
  BY DEF MarkRetry
<1>. HIDE DEF Becomes, SameJob, Row
<1>16. QED
  BY <1>1, <1>2, <1>3, <1>4, <1>5, <1>6, <1>7, <1>8, <1>9, <1>10, <1>11, <1>12, <1>13, <1>14, <1>15

\* A new job is a row, leased to whoever makes it or waiting.
NewJob(q, state, k, n) ==
    q \in Row /\ q.state = state /\ q.kind = k /\ q.last = n /\ q.marked = FALSE

\* A row that enqueue or claim_for_attempt inserts is well typed and unmarked.
LEMMA NewRows ==
    /\ NewJob(NoRow, "absent", "none", 0)
    /\ \A k \in AllKinds, n \in Nat : NewJob(Enqueued(k, n), "pending", k, n)
    /\ \A k \in AllKinds, n \in Nat, body \in {"full", "stub", "cleared"} :
         /\ NewJob(BornLeased(k, body, n), "inflight", k, n)
         /\ BornLeased(k, body, n).lease = "held"
<1> USE DEF NoRow, Row, States, NewJob
<1>1. NewJob(NoRow, "absent", "none", 0)
  OBVIOUS
<1>2. ASSUME NEW k \in AllKinds, NEW n \in Nat
      PROVE  NewJob(Enqueued(k, n), "pending", k, n)
  BY DEF Enqueued
<1>3. ASSUME NEW k \in AllKinds, NEW n \in Nat, NEW body \in {"full", "stub", "cleared"}
      PROVE  /\ NewJob(BornLeased(k, body, n), "inflight", k, n)
             /\ BornLeased(k, body, n).lease = "held"
  BY DEF BornLeased
<1>. HIDE DEF NoRow, Row, States, NewJob
<1>4. QED
  BY <1>1, <1>2, <1>3

\* Where the moves of a sender leave it.
LEMMA SenderMoves ==
    /\ Idle \in Sender /\ Idle.pc = "idle" /\ Idle.job = 0 /\ Idle.verdict = "none"
    /\ \A pc \in Places, j \in 0..MaxJobs :
         LET to == Begin(pc, j) IN to \in Sender /\ to.pc = pc /\ to.job = j
    /\ \A me \in Sender, pc \in Places :
         LET to == At(me, pc) IN to \in Sender /\ to.pc = pc /\ to.job = me.job
    /\ \A me \in Sender, v \in Verdicts :
         LET to == Ended(me, v) IN
         to \in Sender /\ to.pc = "settling" /\ to.job = me.job /\ to.verdict = v
<1> USE DEF Sender, Idle
<1>0. 0 \in 0..MaxJobs
  BY OutboxAssumption
<1>1. Idle \in Sender /\ Idle.pc = "idle" /\ Idle.job = 0 /\ Idle.verdict = "none"
  BY <1>0 DEF Places, Verdicts
<1>2. ASSUME NEW pc \in Places, NEW j \in 0..MaxJobs
      PROVE  LET to == Begin(pc, j) IN to \in Sender /\ to.pc = pc /\ to.job = j
  BY <1>1 DEF Begin
<1>3. ASSUME NEW me \in Sender, NEW pc \in Places
      PROVE  LET to == At(me, pc) IN to \in Sender /\ to.pc = pc /\ to.job = me.job
  BY DEF At
<1>4. ASSUME NEW me \in Sender, NEW v \in Verdicts
      PROVE  LET to == Ended(me, v) IN
             to \in Sender /\ to.pc = "settling" /\ to.job = me.job /\ to.verdict = v
  BY DEF Ended, Places
<1>. HIDE DEF Sender, Idle
<1>5. QED
  BY <1>1, <1>2, <1>3, <1>4

-----------------------------------------------------------------------------
(* Types *)

RowsOK   == rows \in [JobId -> Row] /\ \A j \in JobId : rows[j].last \in 0..MaxJobs
SenderOK == /\ sender \in [Senders -> Sender]
            /\ \A s \in Senders : sender[s].pc # "idle" => sender[s].job \in JobId
SweepOK  == /\ sweep \in [pc : {"idle", "reclaim", "expire", "recover"}, todo : SUBSET Found]
            /\ decisions \subseteq Decision
            /\ up \in BOOLEAN
HistoryOK == /\ copies \in [JobId -> Nat] /\ chosen \in [JobId -> Nat]
             /\ reopened \subseteq JobId
             /\ taps \in Nat /\ faults \in Nat

\* The type invariant, one variable or group of variables at a time, before and
\* after a step.
LEMMA TypeParts == /\ TypeOK <=> RowsOK /\ SenderOK /\ SweepOK /\ HistoryOK
                   /\ TypeOK' <=> RowsOK' /\ SenderOK' /\ SweepOK' /\ HistoryOK'
BY DEF TypeOK, RowsOK, SenderOK, SweepOK, HistoryOK

\* Writing one row changes that row alone.
LEMMA WriteRow ==
    ASSUME RowsOK, NEW j \in JobId, NEW r, Write(j, r)
    PROVE  /\ rows'[j] = r
           /\ \A i \in JobId \ {j} : rows'[i] = rows[i]
           /\ r \in Row /\ r.last \in 0..MaxJobs => RowsOK'
BY DEF RowsOK, Write

\* Moving one sender moves that sender alone.
LEMMA MoveSender ==
    ASSUME SenderOK, NEW s \in Senders, NEW to, Goes(s, to)
    PROVE  /\ sender'[s] = to
           /\ \A t \in Senders \ {s} : sender'[t] = sender[t]
           /\ to \in Sender /\ (to.pc # "idle" => to.job \in JobId) => SenderOK'
BY DEF SenderOK, Goes

\* The values a step reads, typed.
LEMMA RowTyped ==
    ASSUME RowsOK, NEW j \in JobId
    PROVE  /\ rows[j] \in Row /\ rows[j].last \in 0..MaxJobs /\ rows[j].last \in Nat
           /\ rows[j].marked \in BOOLEAN /\ rows[j].attempts \in Nat
           /\ rows[j].kind \in AllKinds \cup {"none"}
           /\ rows[j].payload \in {"full", "stub", "cleared"}
<1>1. rows[j] \in Row /\ rows[j].last \in 0..MaxJobs
  BY DEF RowsOK
<1>2. /\ rows[j].marked \in BOOLEAN /\ rows[j].attempts \in Nat
      /\ rows[j].kind \in AllKinds \cup {"none"}
      /\ rows[j].payload \in {"full", "stub", "cleared"} /\ rows[j].last \in Nat
  BY <1>1 DEF Row
<1>3. QED
  BY <1>1, <1>2

\* A sender that is in the middle of something names a job of the table.
LEMMA SenderTyped ==
    ASSUME SenderOK, NEW s \in Senders
    PROVE  /\ sender[s] \in Sender /\ sender[s].pc \in Places
           /\ sender[s].job \in 0..MaxJobs
           /\ sender[s].verdict \in Verdicts /\ sender[s].tries \in Nat
           /\ sender[s].pc # "idle" => sender[s].job \in JobId
<1>1. /\ sender[s] \in Sender
      /\ sender[s].pc # "idle" => sender[s].job \in JobId
  BY DEF SenderOK
<1>2. QED
  BY <1>1 DEF Sender

\* A statement applied to a row of the table leaves a row of the table.
LEMMA RowChanged ==
    ASSUME RowsOK, NEW j \in JobId, NEW r \in Row, SameJob(rows[j], r), Write(j, r)
    PROVE  RowsOK'
BY WriteRow, RowTyped DEF SameJob

\* Whatever an attempt ended with, the sender writes the row of the same job.
LEMMA SettledRow ==
    ASSUME NEW s, NEW r \in Row
    PROVE  Settled(s, r) \in Row /\ SameJob(r, Settled(s, r))
BY RowOperators, RowEffects DEF Becomes, Settled, HandleFailure

\* What a claim by the worker starts from.
LEMMA ClaimedMove ==
    ASSUME RowsOK, NEW j \in JobId
    PROVE  Claimed(j) \in Sender /\ Claimed(j).pc = "checking" /\ Claimed(j).job = j
<1>1. /\ Begin("checking", j) \in Sender
      /\ Begin("checking", j).pc = "checking" /\ Begin("checking", j).job = j
  BY SenderMoves, OutboxAssumption DEF Places, JobId
<1>2. rows[j].payload \in {"full", "stub", "cleared"} /\ rows[j].attempts \in Nat
  BY RowTyped
<1>3. QED
  BY <1>1, <1>2 DEF Sender, Claimed

\* The next place of a sender that has written its verdict.
LEMMA AfterwardsMove ==
    ASSUME RowsOK, SenderOK, NEW s \in Senders, sender[s].pc = "settling"
    PROVE  LET to == Afterwards(s) IN
           /\ to \in Sender
           /\ to.pc # "idle" => to.job \in JobId
           /\ to.pc \in {"idle", "ordering", "archiving"}
           /\ to.pc = "ordering" => rows[sender[s].job].last > sender[s].job
           /\ to.pc = "archiving" => /\ to.job = sender[s].job
                                     /\ sender[s].verdict = "noop"
           /\ to.pc = "idle" => to.job = 0
<1>. DEFINE j == sender[s].job
<1>0. j \in JobId /\ rows[j].last \in 0..MaxJobs
  BY SenderTyped, RowTyped
<1>1. CASE sender[s].verdict = "done" /\ s # Worker /\ j < rows[j].last
  <2>1. Afterwards(s) = Begin("ordering", j + 1)
    BY <1>1 DEF Afterwards
  <2>2. j + 1 \in JobId /\ j + 1 \in 0..MaxJobs
    BY <1>0, <1>1, OutboxAssumption DEF JobId
  <2>3. QED
    BY <2>1, <2>2, <1>1, <1>0, SenderMoves DEF Places, JobId
<1>2. CASE /\ ~(sender[s].verdict = "done" /\ s # Worker /\ j < rows[j].last)
           /\ sender[s].verdict = "noop"
  <2>1. Afterwards(s) = Begin("archiving", j)
    BY <1>2 DEF Afterwards
  <2>2. j \in 0..MaxJobs
    BY <1>0, OutboxAssumption DEF JobId
  <2>3. QED
    BY <2>1, <2>2, <1>2, <1>0, SenderMoves DEF Places
<1>3. CASE /\ ~(sender[s].verdict = "done" /\ s # Worker /\ j < rows[j].last)
           /\ sender[s].verdict # "noop"
  <2>1. Afterwards(s) = Idle
    BY <1>3 DEF Afterwards
  <2>2. QED
    BY <2>1, SenderMoves
<1>4. QED
  BY <1>1, <1>2, <1>3

\* An empty table with everybody idle is well typed.
LEMMA TypeInit == Init => TypeOK
<1>. SUFFICES ASSUME Init PROVE TypeOK
  OBVIOUS
<1>1. RowsOK
  BY NewRows, OutboxAssumption DEF Init, RowsOK, NewJob
<1>2. SenderOK
  BY SenderMoves DEF Init, SenderOK
<1>3. SweepOK
  BY DEF Init, SweepOK, Asleep
<1>4. HistoryOK
  BY DEF Init, HistoryOK
<1>5. QED
  BY <1>1, <1>2, <1>3, <1>4, TypeParts

\* Every step keeps the types: one step of the proof per action.
LEMMA TypeStep == TypeOK /\ [Next]_vars => TypeOK'
<1>. SUFFICES ASSUME RowsOK, SenderOK, SweepOK, HistoryOK
              PROVE  [Next]_vars => TypeOK'
  BY TypeParts
<1>. USE OutboxAssumption
<1>0. \A j \in JobId : j \in Nat /\ j \in 0..MaxJobs
  BY DEF JobId
<1>1. ASSUME NEW s \in Handlers, NEW k \in Kinds, SubmitAlone(s, k) PROVE TypeOK'
  <2>1. PICK j \in JobId : /\ Write(j, BornLeased(k, "full", j))
                           /\ Goes(s, Begin("preparing", j))
    BY <1>1 DEF SubmitAlone
  <2>2. RowsOK'
    BY <2>1, <1>0, WriteRow, NewRows DEF NewJob
  <2>3. SenderOK'
    BY <2>1, <1>0, MoveSender, SenderMoves DEF Senders, Places
  <2>4. SweepOK' /\ HistoryOK'
    BY <1>1 DEF SubmitAlone, SweepOK, HistoryOK, history
  <2>5. QED
    BY <2>2, <2>3, <2>4, TypeParts
<1>2. ASSUME NEW s \in Handlers, NEW k \in Kinds, NEW n \in 1..MaxParts,
             SubmitInOrder(s, k, n)
      PROVE  TypeOK'
  <2>1. PICK j \in JobId :
          /\ j + n - 1 \in JobId
          /\ rows' = [i \in JobId |-> IF i \in j..(j + n - 1)
                                      THEN Enqueued(k, j + n - 1) ELSE rows[i]]
          /\ Goes(s, Begin("ordering", j))
    BY <1>2 DEF SubmitInOrder
  <2>2. RowsOK'
    <3>1. Enqueued(k, j + n - 1) \in Row /\ Enqueued(k, j + n - 1).last \in 0..MaxJobs
      BY <2>1, <1>0, NewRows DEF NewJob
    <3>2. QED
      BY <3>1, <2>1 DEF RowsOK
  <2>3. SenderOK'
    BY <2>1, <1>0, MoveSender, SenderMoves DEF Senders, Places
  <2>4. SweepOK' /\ HistoryOK'
    BY <1>2 DEF SubmitInOrder, SweepOK, HistoryOK, history
  <2>5. QED
    BY <2>2, <2>3, <2>4, TypeParts
<1>3. ASSUME NEW s \in Handlers, NEW v \in {"permanent", "noop"}, SubmitRefusal(s, v)
      PROVE  TypeOK'
  <2>1. PICK j \in JobId : /\ Write(j, BornLeased("max_send", "stub", j))
                           /\ Goes(s, Ended(Begin("settling", j), v))
    BY <1>3 DEF SubmitRefusal
  <2>2. RowsOK'
    BY <2>1, <1>0, WriteRow, NewRows DEF NewJob, AllKinds, MaxKinds
  <2>3. SenderOK'
    <3>1. /\ Begin("settling", j) \in Sender /\ Begin("settling", j).job = j
      BY <1>0, SenderMoves DEF Places
    <3>2. QED
      BY <3>1, <2>1, MoveSender, SenderMoves DEF Senders, Verdicts
  <2>4. SweepOK' /\ HistoryOK'
    BY <1>3 DEF SubmitRefusal, SweepOK, HistoryOK, history
  <2>5. QED
    BY <2>2, <2>3, <2>4, TypeParts
<1>4. ASSUME NEW s \in Handlers, NEW j \in JobId, Replay(s, j) PROVE TypeOK'
  <2>1. SenderOK'
    BY <1>4, <1>0, MoveSender, SenderMoves DEF Replay, Senders, Places
  <2>2. RowsOK' /\ SweepOK' /\ HistoryOK'
    BY <1>4 DEF Replay, Fault, RowsOK, SweepOK, HistoryOK
  <2>3. QED
    BY <2>1, <2>2, TypeParts
<1>5. ASSUME NEW s \in Handlers, CheckOrder(s) PROVE TypeOK'
  <2>1. SenderOK'
    BY <1>5, SenderTyped, MoveSender, SenderMoves DEF CheckOrder, Senders, Places
  <2>2. RowsOK' /\ SweepOK' /\ HistoryOK'
    BY <1>5 DEF CheckOrder, RowsOK, SweepOK, HistoryOK, history
  <2>3. QED
    BY <2>1, <2>2, TypeParts
<1>6. ASSUME NEW s \in Handlers, ClaimForAttempt(s) PROVE TypeOK'
  <2>. DEFINE j == sender[s].job
  <2>1. j \in JobId /\ sender[s] \in Sender
    BY <1>6, SenderTyped DEF ClaimForAttempt, Senders
  <2>2. RowsOK'
    <3>1. CASE Write(j, Leased(rows[j]))
      <4>1. rows[j] \in Row
        BY <2>1, RowTyped
      <4>2. Leased(rows[j]) \in Row /\ SameJob(rows[j], Leased(rows[j]))
        BY <4>1, RowOperators, RowEffects DEF Becomes
      <4>3. QED
        BY <3>1, <2>1, <4>2, RowChanged
    <3>2. CASE UNCHANGED rows
      BY <3>2 DEF RowsOK
    <3>3. QED
      BY <3>1, <3>2, <1>6 DEF ClaimForAttempt
  <2>3. SenderOK'
    BY <1>6, <2>1, MoveSender, SenderMoves DEF ClaimForAttempt, Senders, Places
  <2>4. SweepOK' /\ HistoryOK'
    BY <1>6 DEF ClaimForAttempt, SweepOK, HistoryOK, history
  <2>5. QED
    BY <2>2, <2>3, <2>4, TypeParts
<1>7. ASSUME NEW s \in Handlers, ArchiveNoop(s) PROVE TypeOK'
  <2>. DEFINE j == sender[s].job
  <2>1. j \in JobId
    BY <1>7, SenderTyped DEF ArchiveNoop, Senders
  <2>2. RowsOK'
    <3>1. rows[j] \in Row /\ SameJob(rows[j], rows[j])
      BY <2>1, RowTyped DEF SameJob
    <3>2. Archive(rows[j]) \in Row /\ SameJob(rows[j], Archive(rows[j]))
      BY <3>1, RowOperators, RowEffects DEF Becomes
    <3>3. QED
      BY <1>7, <2>1, <3>1, <3>2, RowChanged DEF ArchiveNoop
  <2>3. SenderOK'
    BY <1>7, MoveSender, SenderMoves DEF ArchiveNoop, Senders
  <2>4. SweepOK' /\ HistoryOK'
    BY <1>7 DEF ArchiveNoop, SweepOK, HistoryOK, history
  <2>5. QED
    BY <2>2, <2>3, <2>4, TypeParts
<1>8. ASSUME ClaimDue PROVE TypeOK'
  <2>1. PICK j \in JobId :
          /\ Write(j, Leased(rows[j]))
          /\ Goes(Worker, Claimed(j))
    BY <1>8 DEF ClaimDue
  <2>2. RowsOK'
    BY <2>1, RowChanged, RowTyped, RowOperators, RowEffects DEF Becomes
  <2>3. SenderOK'
    BY <2>1, ClaimedMove, MoveSender DEF Senders
  <2>4. SweepOK' /\ HistoryOK'
    BY <1>8 DEF ClaimDue, SweepOK, HistoryOK, history
  <2>5. QED
    BY <2>2, <2>3, <2>4, TypeParts
<1>9. ASSUME CheckTurn PROVE TypeOK'
  <2>1. SenderOK'
    BY <1>9, SenderTyped, MoveSender, SenderMoves DEF CheckTurn, Senders, Places, Verdicts
  <2>2. RowsOK' /\ SweepOK' /\ HistoryOK'
    BY <1>9 DEF CheckTurn, RowsOK, SweepOK, HistoryOK, history
  <2>3. QED
    BY <2>1, <2>2, TypeParts
<1>10. ASSUME NEW s \in Senders, EndUnannounced(s) PROVE TypeOK'
  <2>1. PICK v \in Verdicts : Goes(s, Ended(sender[s], v))
    BY <1>10 DEF EndUnannounced, Conclude, Verdicts
  <2>2. SenderOK'
    <3>1. sender[s] \in Sender /\ sender[s].job \in JobId
      BY <1>10, SenderTyped DEF EndUnannounced
    <3>2. QED
      BY <2>1, <3>1, MoveSender, SenderMoves
  <2>3. RowsOK' /\ SweepOK' /\ HistoryOK'
    BY <1>10 DEF EndUnannounced, Fault, RowsOK, SweepOK, HistoryOK
  <2>4. QED
    BY <2>2, <2>3, TypeParts
<1>11. ASSUME NEW s \in Senders, Announce(s) PROVE TypeOK'
  <2>1. sender[s].job \in JobId /\ sender[s] \in Sender
    BY <1>11, SenderTyped DEF Announce
  <2>2. RowsOK'
    <3>1. rows[sender[s].job] \in Row
      BY <2>1, RowTyped
    <3>2. /\ MarkSending(rows[sender[s].job]) \in Row
          /\ SameJob(rows[sender[s].job], MarkSending(rows[sender[s].job]))
      BY <3>1, RowOperators, RowEffects DEF Becomes
    <3>3. QED
      BY <1>11, <2>1, <3>2, RowChanged DEF Announce
  <2>3. SenderOK'
    BY <1>11, <2>1, MoveSender, SenderMoves DEF Announce, Places
  <2>4. SweepOK' /\ HistoryOK'
    BY <1>11 DEF Announce, SweepOK, HistoryOK, history
  <2>5. QED
    BY <2>2, <2>3, <2>4, TypeParts
<1>12. ASSUME NEW s \in Senders, RequestLands(s) PROVE TypeOK'
  <2>1. PICK v \in Verdicts : Goes(s, Ended(sender[s], v))
    BY <1>12 DEF RequestLands, Conclude, Verdicts
  <2>2. SenderOK'
    BY <1>12, <2>1, SenderTyped, MoveSender, SenderMoves DEF RequestLands
  <2>3. RowsOK' /\ SweepOK'
    BY <1>12 DEF RequestLands, RowsOK, SweepOK
  <2>4. HistoryOK'
    BY <1>12, SenderTyped DEF RequestLands, HistoryOK
  <2>5. QED
    BY <2>2, <2>3, <2>4, TypeParts
<1>13. ASSUME NEW s \in Senders, RequestFails(s) PROVE TypeOK'
  <2>1. PICK v \in Verdicts : Goes(s, Ended(sender[s], v))
    BY <1>13 DEF RequestFails, Conclude, Verdicts
  <2>2. SenderOK'
    BY <1>13, <2>1, SenderTyped, MoveSender, SenderMoves DEF RequestFails
  <2>3. RowsOK' /\ SweepOK' /\ HistoryOK'
    BY <1>13 DEF RequestFails, Fault, RowsOK, SweepOK, HistoryOK
  <2>4. QED
    BY <2>2, <2>3, TypeParts
<1>14. ASSUME NEW s \in Senders, Settle(s) PROVE TypeOK'
  <2>1. sender[s].job \in JobId
    BY <1>14, SenderTyped DEF Settle
  <2>2. RowsOK'
    BY <1>14, <2>1, RowChanged, RowTyped, SettledRow DEF Settle
  <2>3. SenderOK'
    BY <1>14, AfterwardsMove, MoveSender DEF Settle
  <2>4. SweepOK' /\ HistoryOK'
    BY <1>14 DEF Settle, SweepOK, HistoryOK, history
  <2>5. QED
    BY <2>2, <2>3, <2>4, TypeParts
<1>15. ASSUME SweepReads \/ ExpiryReads \/ SweepEnds \/ Restart \/ Started PROVE TypeOK'
  <2>1. SweepOK'
    <3>1. \A lapsedOnly \in BOOLEAN : InflightRows(lapsedOnly) \subseteq Found
      BY RowTyped DEF InflightRows, Found
    <3>. DEFINE Overdue == { [job |-> j, marked |-> FALSE] :
                     j \in {i \in JobId : rows[i].state = "pending" /\ rows[i].overdue} }
    <3>2. Overdue \subseteq Found
      <4>1. \A j \in JobId : [job |-> j, marked |-> FALSE] \in Found
        BY DEF Found
      <4>2. QED
        BY <4>1
    <3>3. PICK pc \in {"idle", "reclaim", "expire", "recover"}, S \in SUBSET Found :
            sweep' = [pc |-> pc, todo |-> S]
      <4>1. CASE SweepReads
        BY <4>1, <3>1 DEF SweepReads
      <4>2. CASE Restart
        BY <4>2, <3>1 DEF Restart
      <4>3. CASE ExpiryReads
        BY <4>3, <3>2 DEF ExpiryReads
      <4>4. CASE SweepEnds \/ Started
        BY <4>4 DEF SweepEnds, Started, Asleep
      <4>5. QED
        BY <1>15, <4>1, <4>2, <4>3, <4>4
    <3>4. decisions' = decisions /\ up' \in BOOLEAN
      BY <1>15 DEF SweepReads, ExpiryReads, SweepEnds, Restart, Started, SweepOK
    <3>. HIDE DEF Overdue
    <3>5. QED
      BY <3>3, <3>4 DEF SweepOK
  <2>2. RowsOK' /\ SenderOK' /\ HistoryOK'
    BY <1>15
    DEF SweepReads, ExpiryReads, SweepEnds, Restart, Started, RowsOK, SenderOK, HistoryOK, history
  <2>3. QED
    BY <2>1, <2>2, TypeParts
<1>16. ASSUME NEW found \in sweep.todo, RecoverOne(found) \/ ExpireOne(found)
       PROVE  TypeOK'
  <2>1. found.job \in JobId /\ found.marked \in BOOLEAN
    BY DEF SweepOK, Found
  <2>2. PICK r \in Row : SameJob(rows[found.job], r) /\ Write(found.job, r)
    BY <1>16, <2>1, RowTyped, RowOperators, RowEffects DEF Becomes, RecoverOne, ExpireOne, Recover
  <2>3. RowsOK'
    BY <2>1, <2>2, RowChanged
  <2>4. SweepOK'
    BY <1>16 DEF RecoverOne, ExpireOne, SweepOK
  <2>5. SenderOK' /\ HistoryOK'
    BY <1>16 DEF RecoverOne, ExpireOne, SenderOK, HistoryOK, history
  <2>6. QED
    BY <2>3, <2>4, <2>5, TypeParts
<1>17. ASSUME NEW op \in {"retry", "resolve", "archive"}, NEW j \in JobId, Decide(op, j)
       PROVE  TypeOK'
  <2>1. rows[j].state \in {"failed", "ambiguous", "expired"}
    BY <1>17 DEF Decide, MayDecide, CanRetry, CanResolve, CanArchive
  <2>2. SweepOK'
    BY <1>17, <2>1 DEF Decide, SweepOK, Decision
  <2>3. RowsOK' /\ SenderOK' /\ HistoryOK'
    BY <1>17 DEF Decide, RowsOK, SenderOK, HistoryOK
  <2>4. QED
    BY <2>2, <2>3, TypeParts
<1>18. ASSUME NEW d \in decisions, ApplyRetry(d) \/ ApplyResolve(d) \/ ApplyArchive(d)
       PROVE  TypeOK'
  <2>1. d.job \in JobId
    BY DEF SweepOK, Decision
  <2>2. PICK r \in Row : SameJob(rows[d.job], r) /\ Write(d.job, r)
    BY <1>18, <2>1, RowTyped, RowOperators, RowEffects DEF Becomes, ApplyRetry, ApplyResolve, ApplyArchive
  <2>3. RowsOK'
    BY <2>1, <2>2, RowChanged
  <2>4. SweepOK' /\ SenderOK'
    BY <1>18 DEF ApplyRetry, ApplyResolve, ApplyArchive, SweepOK, SenderOK
  <2>5. HistoryOK'
    BY <1>18, <2>1 DEF ApplyRetry, ApplyResolve, ApplyArchive, HistoryOK, history
  <2>6. QED
    BY <2>3, <2>4, <2>5, TypeParts
<1>19. ASSUME NEW j \in JobId, Withdraw(j) \/ BecomesDue(j) \/ LeaseLapses(j) \/ GrowsOld(j)
       PROVE  TypeOK'
  <2>1. PICK r \in Row : SameJob(rows[j], r) /\ Write(j, r)
    BY <1>19, RowTyped, RowOperators, RowEffects DEF Becomes, Withdraw, BecomesDue, LeaseLapses, GrowsOld
  <2>2. RowsOK'
    BY <2>1, RowChanged
  <2>3. SweepOK' /\ SenderOK' /\ HistoryOK'
    BY <1>19
    DEF Withdraw, BecomesDue, LeaseLapses, GrowsOld, SweepOK, SenderOK, HistoryOK, history
  <2>4. QED
    BY <2>2, <2>3, TypeParts
<1>20. ASSUME NEW s \in Senders, Dies(s) PROVE TypeOK'
  <2>1. SenderOK'
    BY <1>20, MoveSender, SenderMoves DEF Dies
  <2>2. RowsOK' /\ SweepOK' /\ HistoryOK'
    BY <1>20 DEF Dies, Fault, RowsOK, SweepOK, HistoryOK
  <2>3. QED
    BY <2>1, <2>2, TypeParts
<1>21. ASSUME Crash PROVE TypeOK'
  <2>1. SenderOK'
    BY <1>21, SenderMoves DEF Crash, SenderOK
  <2>2. RowsOK' /\ SweepOK'
    BY <1>21 DEF Crash, Asleep, RowsOK, SweepOK
  <2>3. HistoryOK'
    BY <1>21 DEF Crash, Fault, HistoryOK
  <2>4. QED
    BY <2>1, <2>2, <2>3, TypeParts
<1>22. ASSUME UNCHANGED vars PROVE TypeOK'
  BY <1>22, TypeParts DEF TypeOK, vars, history
<1>23. QED
  BY <1>1, <1>2, <1>3, <1>4, <1>5, <1>6, <1>7, <1>8, <1>9, <1>10, <1>11, <1>12, <1>13, <1>14,
     <1>15, <1>16, <1>17, <1>18, <1>19, <1>20, <1>21, <1>22
  DEF Next, Submit, HandlerSteps, WorkerSteps, Attempt, Sweeper, Owner, Time, Senders

\* The table, the senders, the sweeper and the owner's commands keep their types,
\* whatever the interleaving (all of OutboxRepository and its callers).
THEOREM TypeCorrect == Spec => []TypeOK
BY TypeInit, TypeStep, PTL DEF Spec

-----------------------------------------------------------------------------
(* Who holds which row *)

\* IInv without the types, which TypeCorrect takes care of.
Facts == /\ DownIsQuiet /\ ReplayableKinds /\ OneAttempt /\ HeldRows /\ LapsedRows
         /\ LiveRows /\ Allowance /\ FoundRows /\ AllFound /\ DecidedRows

\* The invariant is the types and the facts about who holds which row.
LEMMA InvariantParts == IInv <=> TypeOK /\ Facts
  BY DEF IInv, Facts

\* An empty table with everybody idle satisfies every part of the invariant.
LEMMA InvariantInit == Init => IInv
<1>. SUFFICES ASSUME Init PROVE Facts
  BY TypeInit, InvariantParts
<1>1. /\ \A s \in Senders : sender[s].pc = "idle" /\ sender[s].job = 0
      /\ \A j \in JobId : /\ rows[j].state = "absent" /\ rows[j].kind = "none"
                          /\ rows[j].last = 0
      /\ \A j \in JobId : copies[j] = 0 /\ chosen[j] = 0
      /\ up = TRUE /\ decisions = {} /\ sweep.pc = "idle" /\ sweep.todo = {}
  BY SenderMoves, NewRows DEF Init, NewJob, Asleep
<1>2. \A j \in JobId : j \in Nat /\ j >= 1
  BY OutboxAssumption DEF JobId
<1>3. DownIsQuiet /\ OneAttempt /\ HeldRows /\ LapsedRows /\ LiveRows
  BY <1>1 DEF DownIsQuiet, OneAttempt, HeldRows, LapsedRows, LiveRows, Attempting
<1>4. ReplayableKinds
  BY <1>1, <1>2 DEF ReplayableKinds, TgKinds
<1>5. Allowance
  BY <1>1 DEF Allowance, NoUnchosenDuplicate, Unlanded, Attempting
<1>6. FoundRows /\ AllFound /\ DecidedRows
  BY <1>1 DEF FoundRows, AllFound, DecidedRows
<1>7. QED
  BY <1>3, <1>4, <1>5, <1>6 DEF Facts

-----------------------------------------------------------------------------
(* Steps that share an argument *)

\* A sender that only moves on, keeping at most the job it was carrying out, or
\* picking up an old one while nothing dies.
LEMMA SenderMovesOn ==
    ASSUME TypeOK, Facts, Safe,
           NEW s \in Senders, NEW to, Goes(s, to), to \in Sender,
           UNCHANGED <<rows, sweep, decisions, up, copies, chosen>>,
           up, 
           Attempting(s)' => /\ Attempting(s) /\ to.job = sender[s].job
                             /\ to.pc = "requesting" => sender[s].pc = "requesting",
           Unlanded(s)' => Unlanded(s),
           ~CoroutinesDie /\ Attempting(s) => Attempting(s)',
           to.job \in {0, sender[s].job} \/ (to.job \in JobId /\ ~CoroutinesDie),
           to.pc # "archiving"
    PROVE  Facts'
<1>. USE TypeParts
<1>0. /\ sender'[s] = to
      /\ \A t \in Senders \ {s} : sender'[t] = sender[t]
      /\ \A t \in Senders : t # s => /\ Attempting(t)' = Attempting(t)
                                     /\ Unlanded(t)' = Unlanded(t)
  BY MoveSender DEF Attempting, Unlanded
<1>1. DownIsQuiet'
  BY <1>0 DEF DownIsQuiet, Facts
<1>2. ReplayableKinds'
  BY DEF ReplayableKinds, Facts
<1>3. OneAttempt'
  BY <1>0 DEF OneAttempt, Facts
<1>4. HeldRows'
  BY <1>0 DEF HeldRows, Facts
<1>5. LapsedRows'
  <2>1. \A j \in JobId : /\ ~CoroutinesDie /\ rows[j].state = "inflight"
                         => rows[j].lease = "held"
    BY DEF LiveRows, HeldRows, Facts
  <2>2. 0 \notin JobId
    BY OutboxAssumption DEF JobId
  <2>3. QED
    BY <1>0, <2>1, <2>2 DEF LapsedRows, Facts
<1>6. LiveRows'
  BY <1>0 DEF LiveRows, Facts
<1>7. Allowance'
  BY <1>0 DEF Allowance, NoUnchosenDuplicate, Facts, Unlanded
<1>8. FoundRows'
  <2>1. \A found \in sweep.todo : found.job \in JobId
    BY DEF SweepOK, Found
  <2>2. 0 \notin JobId
    BY OutboxAssumption DEF JobId
  <2>3. sweep.pc # "recover"
    BY DEF DownIsQuiet, Facts
  <2>4. QED
    BY <1>0, <2>1, <2>2, <2>3 DEF FoundRows, Facts
<1>9. AllFound'
  BY DEF AllFound, Facts
<1>10. DecidedRows'
  BY <1>0 DEF DecidedRows, Facts, Senders
<1>11. QED
  BY <1>1, <1>2, <1>3, <1>4, <1>5, <1>6, <1>7, <1>8, <1>9, <1>10 DEF Facts

\* A sender that starts carrying out a job nobody else has: it leased the row, or
\* brought it into being.
LEMMA TakesJob ==
    ASSUME TypeOK, Facts, Safe,
           NEW s \in Senders, NEW to, Goes(s, to),
           NEW j \in JobId, NEW r, Write(j, r),
           UNCHANGED <<sweep, decisions, up, copies, chosen>>,
           up, ~Attempting(s),
           rows[j].state \in {"absent", "pending"},
           r.state = "inflight", r.lease = "held",
           r.kind \in TgKinds \/ r.last > j => ~CoroutinesDie,
           to.job = j, to.pc \in {"checking", "preparing", "settling"}
    PROVE  Facts'
<1>. USE TypeParts
<1>0. /\ sender'[s] = to
      /\ \A t \in Senders \ {s} : sender'[t] = sender[t]
      /\ Attempting(s)' /\ \A t \in Senders \ {s} : Attempting(t)' = Attempting(t)
      /\ \A t \in Senders \ {s} : Unlanded(t)' = Unlanded(t)
      /\ rows'[j] = r /\ \A i \in JobId \ {j} : rows'[i] = rows[i]
  BY MoveSender, WriteRow DEF Attempting, Unlanded
<1>1. \A t \in Senders : Attempting(t) => sender[t].job \in JobId /\ sender[t].job # j
  BY SenderTyped DEF HeldRows, Facts, Attempting
<1>2. DownIsQuiet'
  BY <1>0 DEF DownIsQuiet, Facts
<1>3. ReplayableKinds'
  BY <1>0 DEF ReplayableKinds, Facts
<1>4. OneAttempt'
  BY <1>0, <1>1 DEF OneAttempt, Facts
<1>5. HeldRows'
  BY <1>0, <1>1 DEF HeldRows, Facts
<1>6. LapsedRows'
  BY <1>0 DEF LapsedRows, Facts
<1>7. LiveRows'
  BY <1>0 DEF LiveRows, Facts
<1>8. Allowance'
  <2>1. copies[j] <= chosen[j]
    BY DEF Allowance, Facts
  <2>2. \A t \in Senders : Unlanded(t)' => copies'[sender'[t].job] <= chosen'[sender'[t].job]
    BY <1>0, <2>1 DEF Allowance, Facts
  <2>3. NoUnchosenDuplicate'
    BY DEF Allowance, NoUnchosenDuplicate, Facts
  <2>4. \A i \in JobId : \/ rows'[i].state \in {"absent", "pending", "failed"}
                         \/ rows'[i].state = "inflight" /\ ~rows'[i].marked
                         => copies'[i] <= chosen'[i]
    BY <1>0, <2>1 DEF Allowance, Facts
  <2>5. QED
    BY <2>2, <2>3, <2>4 DEF Allowance
<1>9. FoundRows'
  <2>1. \A found \in sweep.todo : found.job \in JobId
    BY DEF SweepOK, Found
  <2>2. sweep.pc \in {"reclaim", "recover"} => \A found \in sweep.todo : found.job # j
    BY DEF FoundRows, Facts
  <2>3. QED
    BY <1>0, <2>1, <2>2 DEF FoundRows, Facts
<1>10. AllFound'
  BY DEF AllFound, DownIsQuiet, Facts
<1>11. DecidedRows'
  <2>1. \A d \in decisions : d.job \in JobId
    BY DEF SweepOK, Decision
  <2>2. \A d \in decisions : d.op \in {"retry", "resolve"} => d.job # j
    BY DEF DecidedRows, Facts
  <2>3. QED
    BY <1>0, <2>1, <2>2 DEF DecidedRows, Facts, Senders
<1>12. QED
  BY <1>2, <1>3, <1>4, <1>5, <1>6, <1>7, <1>8, <1>9, <1>10, <1>11 DEF Facts

\* A row put somewhere else than INFLIGHT by somebody who is not attempting it.
LEMMA RowSetAside ==
    ASSUME TypeOK, Facts, Safe,
           NEW j \in JobId, NEW r, Write(j, r), SameJob(rows[j], r),
           UNCHANGED <<sender, up, copies>>,
           \A i \in JobId : chosen'[i] >= chosen[i] /\ chosen'[i] \in Nat,
           sweep'.pc = sweep.pc, sweep'.todo \subseteq sweep.todo,
           decisions' \subseteq decisions,
           r.state \in {"pending", "done", "ambiguous", "expired", "archived"},
           (\E s \in Senders : Attempting(s) /\ sender[s].job = j)
             => r.state \in {"expired", "archived"},
           r.state = "pending" => copies[j] <= chosen'[j],
           sweep.pc \in {"reclaim", "recover"} =>
             /\ \A found \in sweep'.todo : found.job = j =>
                  r.state = "archived" /\ r.marked = rows[j].marked
             /\ \A found \in sweep.todo : found.job # j => found \in sweep'.todo,
           \A d \in decisions' : d.op \in {"retry", "resolve"} /\ d.job = j
             => r.state \in {"ambiguous", "expired"}
    PROVE  Facts'
<1>. USE TypeParts
<1>0. /\ rows'[j] = r /\ \A i \in JobId \ {j} : rows'[i] = rows[i]
      /\ \A t \in Senders : Attempting(t)' = Attempting(t) /\ Unlanded(t)' = Unlanded(t)
  BY WriteRow DEF Attempting, Unlanded
<1>1. \A t \in Senders : Attempting(t) => sender[t].job \in JobId
  BY SenderTyped DEF Attempting
<1>2. \A i \in JobId : copies[i] \in Nat /\ chosen[i] \in Nat
  BY DEF HistoryOK
<1>3. DownIsQuiet'
  BY DEF DownIsQuiet, Facts
<1>4. ReplayableKinds'
  BY <1>0 DEF ReplayableKinds, Facts, SameJob
<1>5. OneAttempt'
  BY <1>0 DEF OneAttempt, Facts
<1>6. HeldRows'
  BY <1>0, <1>1 DEF HeldRows, Facts
<1>7. LapsedRows'
  BY <1>0 DEF LapsedRows, Facts
<1>8. LiveRows'
  BY <1>0 DEF LiveRows, Facts
<1>9. Allowance'
  <2>1. NoUnchosenDuplicate'
    BY <1>2 DEF Allowance, NoUnchosenDuplicate, Facts
  <2>2. \A t \in Senders : Unlanded(t)' => copies'[sender'[t].job] <= chosen'[sender'[t].job]
    <3>1. \A t \in Senders : Unlanded(t) => sender[t].job \in JobId
      BY <1>1 DEF Unlanded
    <3>2. QED
      BY <1>0, <1>2, <3>1 DEF Allowance, Facts
  <2>3. \A i \in JobId : \/ rows'[i].state \in {"absent", "pending", "failed"}
                         \/ rows'[i].state = "inflight" /\ ~rows'[i].marked
                         => copies'[i] <= chosen'[i]
    BY <1>0, <1>2 DEF Allowance, Facts
  <2>4. QED
    BY <2>1, <2>2, <2>3 DEF Allowance
<1>10. FoundRows'
  <2>1. \A found \in sweep.todo : found.job \in JobId
    BY DEF SweepOK, Found
  <2>2. QED
    BY <1>0, <1>2, <2>1 DEF FoundRows, Facts
<1>11. AllFound'
  BY <1>0 DEF AllFound, Facts
<1>12. DecidedRows'
  <2>1. \A d \in decisions : d.job \in JobId
    BY DEF SweepOK, Decision
  <2>2. QED
    BY <1>0, <1>2, <2>1 DEF DecidedRows, Facts
<1>13. QED
  BY <1>3, <1>4, <1>5, <1>6, <1>7, <1>8, <1>9, <1>10, <1>11, <1>12 DEF Facts

\* A clock passing a column of a row: only the lease matters, and it runs out
\* under nobody.
LEMMA ClockMoves ==
    ASSUME TypeOK, Facts,
           NEW j \in JobId, NEW r, Write(j, r), SameJob(rows[j], r),
           UNCHANGED <<sender, sweep, decisions, up, copies, chosen>>,
           r.state = rows[j].state, r.marked = rows[j].marked,
           \/ r.lease = rows[j].lease
           \/ \A s \in Senders : sender[s].job # j
    PROVE  Facts'
<1>. USE TypeParts
<1>0. /\ rows'[j] = r /\ \A i \in JobId \ {j} : rows'[i] = rows[i]
      /\ \A t \in Senders : Attempting(t)' = Attempting(t) /\ Unlanded(t)' = Unlanded(t)
  BY WriteRow DEF Attempting, Unlanded
<1>1. \A t \in Senders : Attempting(t) => sender[t].job \in JobId
  BY SenderTyped DEF Attempting
<1>2. \A i \in JobId : /\ rows'[i].state = rows[i].state /\ rows'[i].marked = rows[i].marked
                       /\ SameJob(rows[i], rows'[i])
  BY <1>0 DEF SameJob
<1>3. DownIsQuiet' /\ OneAttempt' /\ ReplayableKinds'
  BY <1>0, <1>2 DEF DownIsQuiet, OneAttempt, ReplayableKinds, Facts, SameJob
<1>4. HeldRows'
  BY <1>0, <1>1 DEF HeldRows, Facts
<1>5. LapsedRows'
  BY <1>0 DEF LapsedRows, Facts
<1>6. LiveRows' /\ AllFound'
  BY <1>0, <1>2 DEF LiveRows, AllFound, Facts
<1>7. Allowance'
  BY <1>0, <1>2 DEF Allowance, NoUnchosenDuplicate, Facts
<1>8. FoundRows'
  <2>1. \A found \in sweep.todo : found.job \in JobId
    BY DEF SweepOK, Found
  <2>2. QED
    BY <1>2, <2>1 DEF FoundRows, Facts
<1>9. DecidedRows'
  <2>1. \A d \in decisions : d.job \in JobId
    BY DEF SweepOK, Decision
  <2>2. QED
    BY <1>0, <1>2, <2>1 DEF DecidedRows, Facts
<1>10. QED
  BY <1>3, <1>4, <1>5, <1>6, <1>7, <1>8, <1>9 DEF Facts

-----------------------------------------------------------------------------
(* Steps with an argument of their own *)

\* enqueue, enqueue_batch: new rows nobody has touched.
LEMMA StepSubmitInOrder ==
    ASSUME TypeOK, Facts, Safe, NEW s \in Handlers, NEW k \in Kinds, NEW n \in 1..MaxParts,
           SubmitInOrder(s, k, n)
    PROVE  Facts'
<1>. USE TypeParts, OutboxAssumption
<1>1. PICK j \in JobId :
        /\ NextId(j) /\ j + n - 1 \in JobId
        /\ rows' = [i \in JobId |-> IF i \in j..(j + n - 1)
                                    THEN Enqueued(k, j + n - 1) ELSE rows[i]]
        /\ Goes(s, Begin("ordering", j))
  BY DEF SubmitInOrder
<1>. DEFINE m == j + n - 1
            New == j..m
<1>2. /\ s \in Senders /\ sender[s].pc = "idle" /\ up /\ (n = 1 \/ k = "tg_text")
      /\ UNCHANGED <<sweep, decisions, up, copies, chosen>>
  BY DEF SubmitInOrder, Senders, history
<1>3. /\ j \in 0..MaxJobs /\ j \in Nat /\ m \in Nat /\ New \subseteq JobId /\ j \in New
      /\ \A i \in New : rows[i].state = "absent"
  BY <1>1 DEF JobId, NextId
<1>4. /\ \A i \in New : /\ rows'[i].state = "pending" /\ rows'[i].kind = k
                        /\ rows'[i].last = m
      /\ \A i \in JobId \ New : rows'[i] = rows[i]
  BY <1>1, <1>3, NewRows DEF NewJob
<1>5. /\ sender'[s].pc = "ordering" /\ sender'[s].job = j
      /\ \A t \in Senders \ {s} : sender'[t] = sender[t]
  BY <1>1, <1>2, <1>3, MoveSender, SenderMoves DEF Places
<1>. HIDE DEF m, New
<1>6. /\ \A t \in Senders : Attempting(t)' = Attempting(t)
      /\ \A t \in Senders : Unlanded(t)' = Unlanded(t)
      /\ ~Attempting(s) /\ ~Unlanded(s)
  BY <1>2, <1>5 DEF Attempting, Unlanded
<1>7. \A t \in Senders : Attempting(t) => sender[t].job \in JobId \ New
  BY <1>3, SenderTyped DEF HeldRows, Facts, Attempting
<1>8. DownIsQuiet' /\ OneAttempt' /\ AllFound'
  BY <1>2, <1>5, <1>6 DEF DownIsQuiet, OneAttempt, AllFound, Facts
<1>9. ReplayableKinds'
  <2>1. k \in TgKinds => ~CoroutinesDie
    BY DEF Safe, MaxKinds, TgKinds
  <2>2. n = 1 => m = j /\ New = {j}
    BY <1>3 DEF m, New
  <2>3. k = "tg_text" => k \in TgKinds
    BY DEF TgKinds
  <2>4. ASSUME NEW i \in New, rows'[i].last > i PROVE ~CoroutinesDie
    BY <1>2, <1>3, <1>4, <2>1, <2>2, <2>3, <2>4
  <2>5. QED
    BY <1>3, <1>4, <2>1, <2>4 DEF ReplayableKinds, Facts
<1>10. HeldRows'
  BY <1>4, <1>5, <1>6, <1>7 DEF HeldRows, Facts
<1>11. LapsedRows'
  BY <1>3, <1>4, <1>5 DEF LapsedRows, Facts
<1>12. LiveRows'
  BY <1>2, <1>4, <1>5, <1>6 DEF LiveRows, Facts
<1>13. Allowance'
  <2>1. \A t \in Senders : Unlanded(t)' => copies'[sender'[t].job] <= chosen'[sender'[t].job]
    BY <1>2, <1>5, <1>6 DEF Allowance, Facts
  <2>2. NoUnchosenDuplicate'
    BY <1>2 DEF Allowance, NoUnchosenDuplicate, Facts
  <2>3. \A i \in JobId : \/ rows'[i].state \in {"absent", "pending", "failed"}
                         \/ rows'[i].state = "inflight" /\ ~rows'[i].marked
                         => copies'[i] <= chosen'[i]
    BY <1>2, <1>3, <1>4 DEF Allowance, Facts
  <2>4. QED
    BY <2>1, <2>2, <2>3 DEF Allowance
<1>14. FoundRows'
  <2>1. sweep.pc \in {"reclaim", "recover"} =>
          \A found \in sweep.todo : found.job \in JobId /\ found.job \notin New
    BY <1>3 DEF FoundRows, Facts, SweepOK, Found
  <2>2. ASSUME sweep.pc \in {"reclaim", "recover"}, NEW found \in sweep.todo
        PROVE  /\ rows'[found.job] = rows[found.job]
               /\ \A t \in Senders : sender'[t].job # found.job
    <3>1. found.job \in JobId /\ found.job \notin New /\ found.job # j
      BY <1>3, <2>1, <2>2
    <3>2. QED
      BY <1>4, <1>5, <2>2, <3>1 DEF FoundRows, Facts
  <2>3. QED
    BY <1>2, <2>2 DEF FoundRows, Facts
<1>15. DecidedRows'
  <2>1. \A d \in decisions : d.op \in {"retry", "resolve"} =>
          d.job \in JobId /\ d.job \notin New
    BY <1>3 DEF DecidedRows, Facts, SweepOK, Decision
  <2>2. QED
    BY <1>2, <1>4, <1>5, <1>6, <2>1 DEF DecidedRows, Facts, Senders
<1>16. QED
  BY <1>8, <1>9, <1>10, <1>11, <1>12, <1>13, <1>14, <1>15 DEF Facts

\* mark_sending: from here on the row remembers that a request may have gone out.
LEMMA StepAnnounce ==
    ASSUME TypeOK, Facts, Safe, NEW s \in Senders, Announce(s)
    PROVE  Facts'
<1>. USE TypeParts
<1>. DEFINE j == sender[s].job
<1>1. /\ sender[s].pc = "preparing" /\ Attempting(s) /\ j \in JobId
      /\ sender[s] \in Sender /\ rows[j] \in Row
      /\ UNCHANGED <<sweep, decisions, up, copies, chosen>>
      /\ Write(j, MarkSending(rows[j])) /\ Goes(s, At(sender[s], "requesting"))
  BY SenderTyped, RowTyped DEF Announce, Attempting, history
<1>2. /\ rows'[j].state = rows[j].state /\ rows'[j].lease = rows[j].lease
      /\ rows'[j].marked = TRUE /\ SameJob(rows[j], rows'[j])
      /\ \A i \in JobId \ {j} : rows'[i] = rows[i]
  <2>1. /\ rows'[j] = MarkSending(rows[j])
        /\ \A i \in JobId \ {j} : rows'[i] = rows[i]
    BY <1>1, WriteRow
  <2>2. /\ Becomes(rows[j], MarkSending(rows[j]), rows[j].state, TRUE)
        /\ MarkSending(rows[j]).lease = rows[j].lease
    BY <1>1, RowEffects
  <2>3. QED
    BY <2>1, <2>2, Zenon DEF Becomes
<1>3. /\ sender'[s].pc = "requesting" /\ sender'[s].job = j
      /\ \A t \in Senders \ {s} : sender'[t] = sender[t]
  BY <1>1, MoveSender, SenderMoves DEF Places
<1>. HIDE DEF j
<1>4. /\ \A t \in Senders : Attempting(t)' = Attempting(t) /\ Unlanded(t)' = Unlanded(t)
      /\ \A t \in Senders : sender'[t].job = sender[t].job
      /\ sender[s].job = j
  BY <1>1, <1>3 DEF Attempting, Unlanded, j
<1>5. \A t \in Senders \ {s} : Attempting(t) => sender[t].job \in JobId \ {j}
  BY <1>1, <1>4, SenderTyped DEF OneAttempt, Facts, Attempting
<1>6. DownIsQuiet'
  BY <1>1, <1>3, SenderMoves DEF DownIsQuiet, Facts
<1>7. OneAttempt' /\ ReplayableKinds'
  BY <1>1, <1>2, <1>4 DEF OneAttempt, ReplayableKinds, Facts, SameJob
<1>8. HeldRows'
  BY <1>1, <1>2, <1>3, <1>4, <1>5 DEF HeldRows, Facts
<1>9. LapsedRows' /\ LiveRows' /\ AllFound'
  BY <1>1, <1>2, <1>4 DEF LapsedRows, LiveRows, AllFound, Facts
<1>10. Allowance'
  BY <1>1, <1>2, <1>4 DEF Allowance, NoUnchosenDuplicate, Facts
<1>11. FoundRows'
  <2>1. sweep.pc \in {"reclaim", "recover"} =>
          \A found \in sweep.todo : found.job \in JobId \ {j}
    BY <1>4 DEF FoundRows, Facts, SweepOK, Found
  <2>2. QED
    BY <1>1, <1>2, <1>4, <2>1 DEF FoundRows, Facts
<1>12. DecidedRows'
  <2>1. \A d \in decisions : d.job \in JobId
    BY DEF SweepOK, Decision
  <2>2. QED
    BY <1>1, <1>2, <1>3, <1>4, <2>1 DEF DecidedRows, Facts, Senders
<1>13. QED
  BY <1>6, <1>7, <1>8, <1>9, <1>10, <1>11, <1>12 DEF Facts

\* The remote side creates the message: the one copy the allowance had room for.
LEMMA StepRequestLands ==
    ASSUME TypeOK, Facts, Safe, NEW s \in Senders, RequestLands(s)
    PROVE  Facts'
<1>. USE TypeParts
<1>. DEFINE j == sender[s].job
<1>1. PICK v \in {"done", "unconfirmed"} : Goes(s, Ended(sender[s], v))
  BY DEF RequestLands, Conclude
<1>2. /\ sender[s].pc = "requesting" /\ Attempting(s) /\ Unlanded(s) /\ j \in JobId
      /\ sender[s] \in Sender
      /\ UNCHANGED <<rows, sweep, decisions, up, chosen>>
      /\ copies' = [copies EXCEPT ![j] = @ + 1]
  BY SenderTyped DEF RequestLands, Attempting, Unlanded
<1>3. /\ sender'[s].pc = "settling" /\ sender'[s].job = j /\ sender'[s].verdict = v
      /\ \A t \in Senders \ {s} : sender'[t] = sender[t]
  BY <1>1, <1>2, MoveSender, SenderMoves DEF Verdicts
<1>4. /\ copies'[j] = copies[j] + 1
      /\ \A i \in JobId \ {j} : copies'[i] = copies[i]
      /\ copies[j] \in Nat /\ chosen[j] \in Nat
  BY <1>2 DEF HistoryOK
<1>. HIDE DEF j
<1>5. /\ \A t \in Senders : Attempting(t)' = Attempting(t)
      /\ \A t \in Senders \ {s} : Unlanded(t)' = Unlanded(t)
      /\ ~Unlanded(s)'
      /\ \A t \in Senders : sender'[t].job = sender[t].job
      /\ sender[s].job = j
  BY <1>2, <1>3 DEF Attempting, Unlanded, j
<1>6. \A t \in Senders \ {s} : Attempting(t) => sender[t].job \in JobId \ {j}
  BY <1>2, <1>5, SenderTyped DEF OneAttempt, Facts, Attempting
<1>7. DownIsQuiet'
  BY <1>2, <1>3, SenderMoves DEF DownIsQuiet, Facts
<1>8. OneAttempt' /\ ReplayableKinds'
  BY <1>2, <1>5 DEF OneAttempt, ReplayableKinds, Facts
<1>9. HeldRows'
  BY <1>2, <1>3, <1>5 DEF HeldRows, Facts
<1>10. LapsedRows' /\ LiveRows' /\ AllFound'
  BY <1>2, <1>5 DEF LapsedRows, LiveRows, AllFound, Facts
<1>11. Allowance'
  <2>1. copies[j] <= chosen[j]
    BY <1>2, <1>5 DEF Allowance, Facts
  <2>2. NoUnchosenDuplicate'
    BY <1>2, <1>4, <2>1 DEF Allowance, NoUnchosenDuplicate, Facts
  <2>3. \A t \in Senders : Unlanded(t)' => copies'[sender'[t].job] <= chosen'[sender'[t].job]
    BY <1>2, <1>4, <1>5, <1>6 DEF Allowance, Facts, Unlanded
  <2>4. \/ rows[j].state \in {"expired", "archived"}
        \/ rows[j].state = "inflight" /\ rows[j].marked
    BY <1>2, <1>5 DEF HeldRows, Facts
  <2>5. \A i \in JobId : \/ rows'[i].state \in {"absent", "pending", "failed"}
                         \/ rows'[i].state = "inflight" /\ ~rows'[i].marked
                         => copies'[i] <= chosen'[i]
    BY <1>2, <1>4, <2>4 DEF Allowance, Facts
  <2>6. QED
    BY <2>2, <2>3, <2>5 DEF Allowance
<1>12. FoundRows'
  <2>1. sweep.pc \in {"reclaim", "recover"} =>
          \A found \in sweep.todo : found.job \in JobId \ {j}
    BY <1>2, <1>5 DEF FoundRows, Facts, SweepOK, Found
  <2>2. QED
    BY <1>2, <1>4, <1>5, <2>1 DEF FoundRows, Facts
<1>13. DecidedRows'
  <2>1. \A d \in decisions : d.op \in {"retry", "resolve"} => d.job \in JobId \ {j}
    BY <1>2, <1>5 DEF DecidedRows, Facts, SweepOK, Decision
  <2>2. QED
    BY <1>2, <1>3, <1>4, <1>5, <2>1 DEF DecidedRows, Facts, Senders
<1>14. QED
  BY <1>7, <1>8, <1>9, <1>10, <1>11, <1>12, <1>13 DEF Facts

\* What the verdict of an attempt makes of its row.
LEMMA SettledEffects ==
    ASSUME NEW s \in Senders, NEW r \in Row, sender[s].verdict \in Verdicts
    PROVE  LET q == Settled(s, r) IN
           /\ q.state \in {"pending", "done", "ambiguous", "failed"}
           /\ q.state \in {"pending", "failed"} =>
                sender[s].verdict \notin {"done", "unconfirmed"}
<1>1. CASE sender[s].verdict = "done"
  BY <1>1, RowEffects DEF Becomes, Settled
<1>2. CASE sender[s].verdict = "unconfirmed"
  BY <1>2, RowEffects DEF Becomes, Settled
<1>3. CASE sender[s].verdict \notin {"done", "unconfirmed"}
  <2>0. /\ Becomes(r, MarkFailed(r), "failed", r.marked)
        /\ Becomes(r, Defer(r), "pending", FALSE)
        /\ \A cost \in Nat, due \in BOOLEAN :
             Becomes(r, MarkRetry(r, cost, due), "pending", FALSE)
    BY RowEffects
  <2>1. /\ MarkFailed(r).state = "failed" /\ Defer(r).state = "pending"
        /\ \A cost \in Nat, due \in BOOLEAN : MarkRetry(r, cost, due).state = "pending"
    BY <2>0 DEF Becomes
  <2>2. HandleFailure(r, sender[s].tries).state \in {"pending", "failed"}
    BY <2>1 DEF HandleFailure
  <2>3. Settled(s, r).state \in {"pending", "failed"}
    BY <1>3, <2>1, <2>2 DEF Settled
  <2>4. QED
    BY <1>3, <2>3
<1>4. QED
  BY <1>1, <1>2, <1>3

\* mark_done, mark_ambiguous, mark_failed, mark_retry, defer: only an attempt that
\* did not land puts its row back.
LEMMA StepSettle ==
    ASSUME TypeOK, Facts, Safe, NEW s \in Senders, Settle(s)
    PROVE  Facts'
<1>. USE TypeParts
<1>. DEFINE j == sender[s].job
            q == Settled(s, rows[j])
            to == Afterwards(s)
<1>1. /\ sender[s].pc = "settling" /\ Attempting(s) /\ j \in JobId
      /\ sender[s].verdict \in Verdicts /\ rows[j] \in Row
      /\ rows[j].last \in 0..MaxJobs
      /\ UNCHANGED <<sweep, decisions, up, copies, chosen>>
      /\ Write(j, q) /\ Goes(s, to)
  BY SenderTyped, RowTyped DEF Settle, Attempting, history
<1>2. /\ q.state \in {"pending", "done", "ambiguous", "failed"}
      /\ q.state \in {"pending", "failed"} =>
           sender[s].verdict \notin {"done", "unconfirmed"}
      /\ SameJob(rows[j], q)
  BY <1>1, SettledEffects, SettledRow
<1>3. /\ to.pc \in {"idle", "ordering", "archiving"}
      /\ to.pc # "idle" => to.job \in JobId
      /\ to.pc = "ordering" => rows[j].last > j
      /\ to.pc = "archiving" => to.job = j
      /\ to.pc = "idle" => to.job = 0
  BY <1>1, AfterwardsMove
<1>. HIDE DEF q, to
<1>4. /\ rows'[j] = q /\ \A i \in JobId \ {j} : rows'[i] = rows[i]
      /\ sender'[s] = to /\ \A t \in Senders \ {s} : sender'[t] = sender[t]
  BY <1>1, MoveSender, WriteRow
<1>. HIDE DEF j
<1>5. /\ \A t \in Senders \ {s} : /\ Attempting(t)' = Attempting(t)
                                  /\ Unlanded(t)' = Unlanded(t)
      /\ ~Attempting(s)' /\ ~Unlanded(s)'
      /\ sender[s].job = j
  BY <1>3, <1>4 DEF Attempting, Unlanded, j
<1>6. \A t \in Senders \ {s} : Attempting(t) => sender[t].job \in JobId \ {j}
  BY <1>1, <1>5, SenderTyped DEF OneAttempt, Facts, Attempting
<1>7. up /\ sweep.pc # "recover"
  BY <1>1, SenderMoves DEF DownIsQuiet, Facts
<1>8. to.pc = "ordering" => ~CoroutinesDie
  BY <1>1, <1>3 DEF ReplayableKinds, Facts
<1>9. ~CoroutinesDie => \A i \in JobId : rows[i].state = "inflight" => rows[i].lease = "held"
  BY <1>7 DEF LiveRows, HeldRows, Facts
<1>10. DownIsQuiet'
  BY <1>1, <1>7 DEF DownIsQuiet, Facts
<1>11. OneAttempt' /\ AllFound'
  BY <1>1, <1>4, <1>5, <1>7 DEF OneAttempt, AllFound, Facts
<1>12. ReplayableKinds'
  BY <1>1, <1>2, <1>4 DEF ReplayableKinds, Facts, SameJob
<1>13. HeldRows'
  BY <1>4, <1>5, <1>6 DEF HeldRows, Facts
<1>14. LapsedRows'
  <2>1. 0 \notin JobId
    BY OutboxAssumption DEF JobId
  <2>2. ASSUME NEW i \in JobId, i # j, rows[i].state = "inflight", rows[i].lease # "held"
        PROVE  to.job # i
    BY <1>3, <1>8, <1>9, <2>1, <2>2
  <2>3. QED
    BY <1>2, <1>4, <2>2 DEF LapsedRows, Facts
<1>15. LiveRows'
  BY <1>1, <1>2, <1>4, <1>5, <1>7 DEF LiveRows, Facts
<1>16. Allowance'
  <2>1. q.state \in {"pending", "failed"} => copies[j] <= chosen[j]
    BY <1>1, <1>2, <1>5 DEF Allowance, Unlanded, Facts
  <2>2. \A t \in Senders : Unlanded(t)' => copies'[sender'[t].job] <= chosen'[sender'[t].job]
    BY <1>1, <1>4, <1>5 DEF Allowance, Facts
  <2>3. NoUnchosenDuplicate'
    BY <1>1 DEF Allowance, NoUnchosenDuplicate, Facts
  <2>4. \A i \in JobId : \/ rows'[i].state \in {"absent", "pending", "failed"}
                         \/ rows'[i].state = "inflight" /\ ~rows'[i].marked
                         => copies'[i] <= chosen'[i]
    BY <1>1, <1>2, <1>4, <2>1 DEF Allowance, Facts
  <2>5. QED
    BY <2>2, <2>3, <2>4 DEF Allowance
<1>17. FoundRows'
  <2>1. 0 \notin JobId
    BY OutboxAssumption DEF JobId
  <2>2. \A found \in sweep.todo : found.job \in JobId
    BY DEF SweepOK, Found
  <2>3. ASSUME sweep.pc = "reclaim", NEW found \in sweep.todo
        PROVE  /\ rows'[found.job] = rows[found.job]
               /\ \A t \in Senders : sender'[t].job # found.job
    <3>1. CoroutinesDie
      BY <2>3 DEF FoundRows, Facts
    <3>2. found.job # j
      BY <1>1, <1>5, <2>3 DEF FoundRows, Facts
    <3>3. to.job # found.job
      BY <1>3, <1>8, <2>1, <2>2, <3>1, <3>2
    <3>4. QED
      BY <1>4, <2>2, <2>3, <3>2, <3>3 DEF FoundRows, Facts
  <2>4. QED
    BY <1>1, <1>7, <2>3 DEF FoundRows, Facts
<1>18. DecidedRows'
  <2>1. \A d \in decisions : d.op \in {"retry", "resolve"} => d.job \in JobId \ {j}
    BY <1>1, <1>5 DEF DecidedRows, Facts, SweepOK, Decision
  <2>2. QED
    BY <1>1, <1>3, <1>4, <1>5, <2>1 DEF DecidedRows, Facts, Senders
<1>19. QED
  BY <1>10, <1>11, <1>12, <1>13, <1>14, <1>15, <1>16, <1>17, <1>18 DEF Facts

\* archive, as the last statement of submit_noop.
LEMMA StepArchiveNoop ==
    ASSUME TypeOK, Facts, Safe, NEW s \in Handlers, ArchiveNoop(s)
    PROVE  Facts'
<1>. USE TypeParts
<1>. DEFINE j == sender[s].job
            q == IF CanArchive(rows[j]) THEN Archive(rows[j]) ELSE rows[j]
<1>1. /\ s \in Senders /\ sender[s].pc = "archiving" /\ j \in JobId /\ rows[j] \in Row
      /\ UNCHANGED <<sweep, decisions, up, copies, chosen>>
      /\ Write(j, q) /\ Goes(s, Idle)
  BY SenderTyped, RowTyped DEF ArchiveNoop, Senders, history
<1>2. /\ SameJob(rows[j], q)
      /\ \/ q = rows[j]
         \/ rows[j].state \in {"failed", "ambiguous", "expired"} /\ q.state = "archived"
  BY <1>1, RowEffects DEF Becomes, CanArchive, SameJob
<1>. HIDE DEF q
<1>3. /\ rows'[j] = q /\ \A i \in JobId \ {j} : rows'[i] = rows[i]
      /\ sender'[s].pc = "idle" /\ sender'[s].job = 0
      /\ \A t \in Senders \ {s} : sender'[t] = sender[t]
  BY <1>1, MoveSender, WriteRow, SenderMoves
<1>. HIDE DEF j
<1>4. /\ \A t \in Senders : Attempting(t)' = Attempting(t)
      /\ \A t \in Senders \ {s} : Unlanded(t)' = Unlanded(t)
      /\ ~Attempting(s) /\ ~Unlanded(s)'
      /\ sender[s].job = j
  BY <1>1, <1>3 DEF Attempting, Unlanded, j
<1>5. \A t \in Senders : Attempting(t) => sender[t].job \in JobId
  BY SenderTyped DEF Attempting
<1>6. up /\ sweep.pc # "recover"
  BY <1>1, SenderMoves DEF DownIsQuiet, Facts
<1>7. 0 \notin JobId
  BY OutboxAssumption DEF JobId
<1>8. DownIsQuiet' /\ OneAttempt' /\ AllFound'
  BY <1>1, <1>3, <1>4, <1>6 DEF DownIsQuiet, OneAttempt, AllFound, Facts
<1>9. ReplayableKinds'
  BY <1>1, <1>2, <1>3 DEF ReplayableKinds, Facts, SameJob
<1>10. HeldRows'
  BY <1>2, <1>3, <1>4, <1>5 DEF HeldRows, Facts
<1>11. LapsedRows'
  BY <1>2, <1>3, <1>7 DEF LapsedRows, Facts
<1>12. LiveRows'
  BY <1>1, <1>2, <1>3, <1>4, <1>6 DEF LiveRows, Facts
<1>13. Allowance'
  BY <1>1, <1>2, <1>3, <1>4 DEF Allowance, NoUnchosenDuplicate, Facts
<1>14. FoundRows'
  <2>1. sweep.pc = "reclaim" => \A found \in sweep.todo : found.job \in JobId \ {j}
    BY <1>1, <1>4 DEF FoundRows, Facts, SweepOK, Found
  <2>2. QED
    BY <1>1, <1>3, <1>6, <1>7, <2>1 DEF FoundRows, Facts
<1>15. DecidedRows'
  <2>1. \A d \in decisions : d.op \in {"retry", "resolve"} => d.job \in JobId \ {j}
    BY <1>1, <1>4 DEF DecidedRows, Facts, SweepOK, Decision
  <2>2. QED
    BY <1>1, <1>3, <1>4, <2>1 DEF DecidedRows, Facts, Senders
<1>16. QED
  BY <1>8, <1>9, <1>10, <1>11, <1>12, <1>13, <1>14, <1>15 DEF Facts

\* reclaim_expired_leases, expire_overdue and requeue_inflight, as they read: what
\* they find is theirs to act on.
LEMMA StepSweeperReads ==
    ASSUME TypeOK, Facts, Safe,
           SweepReads \/ ExpiryReads \/ SweepEnds \/ Restart \/ Started
    PROVE  Facts'
<1>. USE TypeParts
<1>1. /\ UNCHANGED <<rows, sender, decisions, copies, chosen>>
      /\ \A t \in Senders : Attempting(t)' = Attempting(t) /\ Unlanded(t)' = Unlanded(t)
  BY DEF SweepReads, ExpiryReads, SweepEnds, Restart, Started, history, Attempting, Unlanded
<1>2. OneAttempt' /\ ReplayableKinds' /\ HeldRows' /\ LapsedRows' /\ Allowance' /\ DecidedRows'
  BY <1>1 DEF OneAttempt, ReplayableKinds, HeldRows, LapsedRows, Allowance,
              NoUnchosenDuplicate, DecidedRows, Facts
<1>3. CASE SweepReads
  <2>1. /\ up /\ up' = up /\ sweep'.pc = "reclaim"
        /\ sweep'.todo = InflightRows(TRUE)
    BY <1>3 DEF SweepReads
  <2>2. ASSUME NEW found \in InflightRows(TRUE)
        PROVE  /\ rows[found.job].state = "inflight" /\ found.job \in JobId
               /\ rows[found.job].marked = found.marked
               /\ rows[found.job].lease = "lapsed"
    BY DEF InflightRows
  <2>3. ASSUME NEW found \in InflightRows(TRUE)
        PROVE  /\ \A s \in Senders : sender[s].job # found.job
               /\ ~found.marked => copies[found.job] <= chosen[found.job]
    BY <2>2 DEF LapsedRows, Allowance, Facts
  <2>4. ~CoroutinesDie => InflightRows(TRUE) = {}
    <3>1. ASSUME ~CoroutinesDie, NEW found \in InflightRows(TRUE) PROVE FALSE
      <4>1. PICK s \in Senders : sender[s].job = found.job
        BY <2>1, <2>2, <3>1 DEF LiveRows, Facts
      <4>2. QED
        BY <2>3, <4>1
    <3>2. QED
      BY <3>1
  <2>5. FoundRows'
    BY <1>1, <2>1, <2>2, <2>3, <2>4 DEF FoundRows
  <2>6. DownIsQuiet' /\ AllFound' /\ LiveRows'
    BY <1>1, <2>1 DEF DownIsQuiet, AllFound, LiveRows, Facts
  <2>7. QED
    BY <1>2, <2>5, <2>6 DEF Facts
<1>4. CASE ExpiryReads \/ SweepEnds
  <2>1. up' = up /\ sweep.pc \in {"reclaim", "expire"} /\ sweep'.pc \in {"expire", "idle"}
    BY <1>4 DEF ExpiryReads, SweepEnds, Asleep
  <2>2. QED
    BY <1>1, <1>2, <2>1 DEF DownIsQuiet, AllFound, LiveRows, FoundRows, Facts
<1>5. CASE Restart
  <2>1. /\ ~up /\ up' = up /\ sweep'.pc = "recover"
        /\ sweep'.todo = InflightRows(FALSE)
    BY <1>5 DEF Restart
  <2>2. ASSUME NEW found \in InflightRows(FALSE)
        PROVE  /\ rows[found.job].state = "inflight" /\ found.job \in JobId
               /\ rows[found.job].marked = found.marked
    BY DEF InflightRows
  <2>3. \A s \in Senders : sender[s].job \notin JobId
    <3>1. \A s \in Senders : sender[s] = Idle
      BY <2>1 DEF DownIsQuiet, Facts
    <3>2. 0 \notin JobId
      BY OutboxAssumption DEF JobId
    <3>3. QED
      BY <3>1, <3>2, SenderMoves
  <2>4. FoundRows'
    BY <1>1, <2>1, <2>2, <2>3 DEF FoundRows, Allowance, Facts
  <2>5. AllFound'
    <3>1. ASSUME NEW j \in JobId, rows[j].state = "inflight"
          PROVE  [job |-> j, marked |-> rows[j].marked] \in InflightRows(FALSE)
      BY <3>1 DEF InflightRows
    <3>2. \A j \in JobId : [job |-> j, marked |-> rows[j].marked].job = j
      OBVIOUS
    <3>3. QED
      BY <1>1, <2>1, <3>1, <3>2 DEF AllFound
  <2>6. DownIsQuiet' /\ LiveRows'
    BY <1>1, <2>1 DEF DownIsQuiet, LiveRows, Facts
  <2>7. QED
    BY <1>2, <2>4, <2>5, <2>6 DEF Facts
<1>6. CASE Started
  <2>1. sweep.pc = "recover" /\ sweep.todo = {} /\ up' = TRUE /\ sweep'.pc = "idle"
    BY <1>6 DEF Started, Asleep
  <2>2. \A j \in JobId : rows[j].state # "inflight"
    BY <2>1 DEF AllFound, Facts
  <2>3. QED
    BY <1>1, <1>2, <2>1, <2>2 DEF DownIsQuiet, AllFound, LiveRows, FoundRows, Facts
<1>7. QED
  BY <1>3, <1>4, <1>5, <1>6

\* The recovery of one row: nobody is left who could still send it.
LEMMA StepRecoverOne ==
    ASSUME TypeOK, Facts, Safe, NEW found \in sweep.todo, RecoverOne(found)
    PROVE  Facts'
<1>. USE TypeParts
<1>. DEFINE j == found.job
            r == Recover(rows[j], found.marked)
<1>1. /\ found \in Found /\ j \in JobId /\ found.marked \in BOOLEAN
      /\ rows[j] \in Row
      /\ sweep.pc \in {"reclaim", "recover"} /\ Write(j, r)
      /\ UNCHANGED <<sender, decisions, up, copies, chosen>>
      /\ sweep' = [sweep EXCEPT !.todo = @ \ {found}]
  BY RowTyped DEF RecoverOne, history, SweepOK, Found
<1>2. /\ rows[j].state \in {"inflight", "archived"}
      /\ ~found.marked => copies[j] <= chosen[j]
      /\ \A s \in Senders : sender[s].job # j
  BY <1>1 DEF FoundRows, Facts
<1>3. /\ Becomes(rows[j], MarkAmbiguous(rows[j]), "ambiguous", rows[j].marked)
      /\ Becomes(rows[j], Requeue(rows[j]), "pending", rows[j].marked)
  BY <1>1, RowEffects
<1>4. /\ SameJob(rows[j], r)
      /\ r.state \in {"pending", "ambiguous"}
      /\ r.state = "pending" => copies[j] <= chosen[j]
  BY <1>2, <1>3 DEF Becomes, Recover
<1>5. /\ sweep'.pc = sweep.pc /\ sweep'.todo = sweep.todo \ {found}
  BY <1>1 DEF SweepOK
<1>6. \A other \in sweep.todo : other.job = j => other = found
  <2>1. ASSUME NEW other \in sweep.todo, other.job = j PROVE other = found
    <3>1. other \in Found
      BY DEF SweepOK
    <3>2. rows[j].marked = other.marked /\ rows[j].marked = found.marked
      BY <1>1, <2>1 DEF FoundRows, Facts
    <3>3. \A f \in Found : f = [job |-> f.job, marked |-> f.marked]
      BY DEF Found
    <3>4. other.job = found.job /\ other.marked = found.marked
      BY <2>1, <3>2
    <3>5. QED
      BY <1>1, <3>1, <3>3, <3>4
  <2>2. QED
    BY <2>1
<1>7. \A i \in JobId : chosen'[i] >= chosen[i] /\ chosen'[i] \in Nat
  BY <1>1 DEF HistoryOK
<1>8. \A d \in decisions : d.op \in {"retry", "resolve"} => d.job # j
  BY <1>2 DEF DecidedRows, Facts
<1>. HIDE DEF r, j
<1>9. QED
  BY <1>1, <1>2, <1>4, <1>5, <1>6, <1>7, <1>8, RowSetAside DEF j

\* expire_overdue, one row: unguarded, so it may retire a row under its sender.
LEMMA StepExpireOne ==
    ASSUME TypeOK, Facts, Safe, NEW found \in sweep.todo, ExpireOne(found)
    PROVE  Facts'
<1>. USE TypeParts
<1>. DEFINE j == found.job
            r == MarkExpired(rows[j])
<1>1. /\ j \in JobId /\ rows[j] \in Row /\ sweep.pc = "expire" /\ Write(j, r)
      /\ UNCHANGED <<sender, decisions, up, copies, chosen>>
      /\ sweep'.pc = sweep.pc /\ sweep'.todo \subseteq sweep.todo
  BY RowTyped DEF ExpireOne, history, SweepOK, Found
<1>2. Becomes(rows[j], r, "expired", rows[j].marked)
  BY <1>1, RowEffects
<1>3. \A i \in JobId : chosen'[i] >= chosen[i] /\ chosen'[i] \in Nat
  BY <1>1 DEF HistoryOK
<1>. HIDE DEF r, j
<1>4. QED
  BY <1>1, <1>2, <1>3, RowSetAside DEF Becomes

\* retry_job, settle_job and archive_job as they read the row.
LEMMA StepDecide ==
    ASSUME TypeOK, Facts, Safe, NEW op \in {"retry", "resolve", "archive"}, NEW j \in JobId,
           Decide(op, j)
    PROVE  Facts'
<1>. USE TypeParts
<1>. DEFINE new == [op |-> op, job |-> j, seen |-> rows[j].state]
<1>1. /\ up /\ decisions' = decisions \cup {new}
      /\ UNCHANGED <<rows, sender, sweep, up, copies, chosen>>
      /\ \A d \in decisions : d.job # j
      /\ \A s \in Handlers : ~(sender[s].pc = "archiving" /\ sender[s].job = j)
  BY DEF Decide, Safe
<1>2. new.op = op /\ new.job = j /\ new.seen = rows[j].state
  OBVIOUS
<1>3. \A t \in Senders : Attempting(t)' = Attempting(t) /\ Unlanded(t)' = Unlanded(t)
  BY <1>1 DEF Attempting, Unlanded
<1>4. op \in {"retry", "resolve"} =>
        /\ rows[j].state \in {"failed", "ambiguous"}
        /\ \A s \in Senders : ~(Attempting(s) /\ sender[s].job = j)
        /\ rows[j].state = "failed" => copies[j] <= chosen[j]
  <2>1. op \in {"retry", "resolve"} => rows[j].state \in {"failed", "ambiguous"}
    BY DEF Decide, MayDecide, CanRetry, CanResolve
  <2>2. QED
    BY <2>1 DEF HeldRows, Allowance, Facts
<1>. HIDE DEF new
<1>5. DecidedRows'
  BY <1>1, <1>2, <1>3, <1>4 DEF DecidedRows, Facts
<1>6. /\ DownIsQuiet' /\ OneAttempt' /\ ReplayableKinds' /\ HeldRows' /\ LapsedRows'
      /\ Allowance' /\ AllFound' /\ LiveRows' /\ FoundRows'
  BY <1>1, <1>3 DEF DownIsQuiet, OneAttempt, ReplayableKinds, HeldRows, LapsedRows, Allowance,
                    NoUnchosenDuplicate, AllFound, LiveRows, FoundRows, Facts
<1>7. QED
  BY <1>5, <1>6 DEF Facts

\* retry_now, resolve, archive: the row is still the one the owner was shown.
LEMMA StepApply ==
    ASSUME TypeOK, Facts, Safe, NEW d \in decisions,
           ApplyRetry(d) \/ ApplyResolve(d) \/ ApplyArchive(d)
    PROVE  Facts'
<1>. USE TypeParts
<1>. DEFINE j == d.job
<1>1. /\ d \in Decision /\ j \in JobId /\ rows[j] \in Row
      /\ UNCHANGED <<sender, sweep, up, copies>>
      /\ decisions' = decisions \ {d} /\ up /\ sweep.pc # "recover"
  BY RowTyped
  DEF ApplyRetry, ApplyResolve, ApplyArchive, history, SweepOK, Decision, DownIsQuiet, Facts
<1>2. \A e \in decisions' : e.job # j
  BY <1>1 DEF DecidedRows, Facts
<1>3. \A i \in JobId : chosen[i] \in Nat /\ copies[i] \in Nat /\ copies[i] <= 1 + chosen[i]
  BY DEF HistoryOK, Allowance, NoUnchosenDuplicate, Facts
<1>4. d.op \in {"retry", "resolve"} =>
        /\ rows[j].state \in {"failed", "ambiguous", "expired"}
        /\ \A s \in Senders : ~(Attempting(s) /\ sender[s].job = j)
        /\ d.seen # "ambiguous" => copies[j] <= chosen[j]
        /\ sweep.pc \in {"reclaim", "recover"} => \A found \in sweep.todo : found.job # j
  BY DEF DecidedRows, FoundRows, Facts
<1>5. /\ Becomes(rows[j], RetryNow(rows[j]), "pending", rows[j].marked)
      /\ Becomes(rows[j], Resolve(rows[j]), "done", rows[j].marked)
      /\ Becomes(rows[j], Archive(rows[j]), "archived", rows[j].marked)
  BY <1>1, RowEffects
<1>6. CASE ApplyRetry(d)
  <2>. DEFINE r == RetryNow(rows[j])
  <2>1. /\ Write(j, r) /\ d.op = "retry"
        /\ chosen' = [chosen EXCEPT ![j] = @ + (IF d.seen = "ambiguous" THEN 1 ELSE 0)]
    BY <1>6 DEF ApplyRetry
  <2>2. /\ \A i \in JobId : chosen'[i] >= chosen[i] /\ chosen'[i] \in Nat
        /\ copies[j] <= chosen'[j]
    BY <1>1, <1>3, <1>4, <2>1 DEF HistoryOK
  <2>3. SameJob(rows[j], r) /\ r.state = "pending"
    BY <1>5 DEF Becomes
  <2>. HIDE DEF r, j
  <2>4. QED
    BY <1>1, <1>2, <1>4, <2>1, <2>2, <2>3, RowSetAside
<1>7. CASE ApplyResolve(d)
  <2>. DEFINE r == Resolve(rows[j])
  <2>1. /\ Write(j, r) /\ d.op = "resolve" /\ chosen' = chosen
    BY <1>7 DEF ApplyResolve, history
  <2>2. SameJob(rows[j], r) /\ r.state = "done"
    BY <1>5 DEF Becomes
  <2>. HIDE DEF r, j
  <2>3. QED
    BY <1>1, <1>2, <1>3, <1>4, <2>1, <2>2, RowSetAside
<1>8. CASE ApplyArchive(d)
  <2>. DEFINE r == Archive(rows[j])
  <2>1. Write(j, r) /\ chosen' = chosen
    BY <1>8 DEF ApplyArchive, history
  <2>2. SameJob(rows[j], r) /\ r.state = "archived" /\ r.marked = rows[j].marked
    BY <1>5 DEF Becomes
  <2>. HIDE DEF r, j
  <2>3. QED
    BY <1>1, <1>2, <1>3, <2>1, <2>2, RowSetAside
<1>9. QED
  BY <1>6, <1>7, <1>8

\* cancel_pending: only what nobody holds.
LEMMA StepWithdraw ==
    ASSUME TypeOK, Facts, Safe, NEW j \in JobId, Withdraw(j)
    PROVE  Facts'
<1>. USE TypeParts
<1>. DEFINE r == Archive(rows[j])
<1>1. /\ rows[j].state = "pending" /\ Write(j, r) /\ rows[j] \in Row
      /\ UNCHANGED <<sender, sweep, decisions, up, copies, chosen>>
  BY RowTyped DEF Withdraw, Withdrawable
<1>2. Becomes(rows[j], r, "archived", rows[j].marked)
  BY <1>1, RowEffects
<1>3. \A i \in JobId : chosen'[i] >= chosen[i] /\ chosen'[i] \in Nat
  BY <1>1 DEF HistoryOK
<1>4. \A d \in decisions : d.op \in {"retry", "resolve"} => d.job # j
  BY <1>1 DEF DecidedRows, Facts
<1>. HIDE DEF r
<1>5. QED
  BY <1>1, <1>2, <1>3, <1>4, RowSetAside DEF Becomes

\* Time passes over a row.
LEMMA StepTime ==
    ASSUME TypeOK, Facts, Safe, NEW j \in JobId,
           BecomesDue(j) \/ LeaseLapses(j) \/ GrowsOld(j)
    PROVE  Facts'
<1>. USE TypeParts
<1>1. /\ rows[j] \in Row
      /\ UNCHANGED <<sender, sweep, decisions, up, copies, chosen>>
  BY RowTyped DEF BecomesDue, LeaseLapses, GrowsOld, history
<1>2. /\ Becomes(rows[j], ComesDue(rows[j]), rows[j].state, rows[j].marked)
      /\ ComesDue(rows[j]).lease = rows[j].lease
      /\ Becomes(rows[j], LosesLease(rows[j]), rows[j].state, rows[j].marked)
      /\ Becomes(rows[j], Ages(rows[j]), rows[j].state, rows[j].marked)
      /\ Ages(rows[j]).lease = rows[j].lease
  BY <1>1, RowEffects
<1>3. PICK r : /\ Write(j, r) /\ Becomes(rows[j], r, rows[j].state, rows[j].marked)
               /\ r.lease = rows[j].lease \/ \A s \in Senders : sender[s].job # j
  BY <1>2 DEF BecomesDue, LeaseLapses, GrowsOld, Safe
<1>4. QED
  BY <1>1, <1>3, ClockMoves DEF Becomes

\* The process dies: nobody is left in the middle of anything.
LEMMA StepCrash ==
    ASSUME TypeOK, Facts, Crash
    PROVE  Facts'
<1>. USE TypeParts
<1>1. /\ UNCHANGED <<rows, copies, chosen>>
      /\ up' = FALSE /\ decisions' = {} /\ sweep'.pc = "idle" /\ sweep'.todo = {}
      /\ \A s \in Senders : sender'[s] = Idle
  BY DEF Crash, Asleep
<1>2. \A s \in Senders : /\ sender'[s].pc = "idle" /\ sender'[s].job \notin JobId
                         /\ ~Attempting(s)' /\ ~Unlanded(s)'
  <2>1. 0 \notin JobId
    BY OutboxAssumption DEF JobId
  <2>2. QED
    BY <1>1, <2>1, SenderMoves DEF Attempting, Unlanded
<1>3. QED
  BY <1>1, <1>2 DEF DownIsQuiet, OneAttempt, ReplayableKinds, HeldRows, LapsedRows, Allowance,
                    NoUnchosenDuplicate, AllFound, LiveRows, FoundRows, DecidedRows, Facts

-----------------------------------------------------------------------------
(* The invariant *)

\* A step of a sender.
LEMMA StepSender ==
    ASSUME TypeOK, TypeOK', Facts, Safe, NEW s \in Senders,
           \/ s \in Handlers /\ (CheckOrder(s) \/ ClaimForAttempt(s))
           \/ s = Worker /\ (ClaimDue \/ CheckTurn)
           \/ EndUnannounced(s) \/ RequestFails(s) \/ Dies(s)
    PROVE  Facts'
<1>. USE TypeParts
<1>1. /\ sender[s] \in Sender /\ sender[s].pc \in Places
      /\ sender[s].pc # "idle" => sender[s].job \in JobId /\ up
  BY SenderTyped, SenderMoves DEF DownIsQuiet, Facts
<1>2. CASE s \in Handlers /\ CheckOrder(s)
  <2>1. /\ UNCHANGED <<rows, sweep, decisions, up, copies, chosen>>
        /\ sender[s].pc = "ordering"
        /\ Goes(s, Idle) \/ Goes(s, At(sender[s], "claiming"))
    BY <1>2 DEF CheckOrder, history
  <2>2. PICK to \in {Idle, At(sender[s], "claiming")} : Goes(s, to)
    BY <2>1
  <2>3. /\ to \in Sender /\ to.pc \in {"idle", "claiming"} /\ to.job \in {0, sender[s].job}
    BY <1>1, SenderMoves DEF Places
  <2>4. sender'[s] = to
    BY <2>2, MoveSender
  <2>5. QED
    BY <1>1, <2>1, <2>2, <2>3, <2>4, SenderMovesOn DEF Attempting, Unlanded
<1>3. CASE s \in Handlers /\ ClaimForAttempt(s)
  <2>. DEFINE j == sender[s].job
  <2>1. /\ UNCHANGED <<sweep, decisions, up, copies, chosen>> /\ sender[s].pc = "claiming"
        /\ j \in JobId /\ up
    BY <1>1, <1>3 DEF ClaimForAttempt, history
  <2>2. CASE /\ Takeable(rows[j]) /\ Write(j, Leased(rows[j]))
             /\ Goes(s, At(sender[s], "preparing"))
    <3>. DEFINE r == Leased(rows[j])
                to == At(sender[s], "preparing")
    <3>1. rows[j].state = "pending"
      BY <2>1, <2>2 DEF Takeable, LapsedRows, Facts
    <3>2. Becomes(rows[j], r, "inflight", rows[j].marked) /\ r.lease = "held"
      BY <2>1, RowTyped, RowEffects
    <3>3. r.kind \in TgKinds \/ r.last > j => ~CoroutinesDie
      BY <2>1, <3>2 DEF Becomes, SameJob, ReplayableKinds, Facts
    <3>4. to.pc = "preparing" /\ to.job = j
      BY <1>1, SenderMoves DEF Places
    <3>5. r.state = "inflight"
      BY <3>2 DEF Becomes
    <3>. HIDE DEF r, to, j
    <3>6. QED
      BY <2>1, <2>2, <3>1, <3>2, <3>3, <3>4, <3>5, TakesJob DEF Attempting, r, to
  <2>3. CASE Goes(s, Idle) /\ UNCHANGED rows
    <3>1. sender'[s] = Idle
      BY <2>3, MoveSender
    <3>2. QED
      BY <2>1, <2>3, <3>1, SenderMoves, SenderMovesOn DEF Attempting, Unlanded
  <2>4. QED
    BY <1>3, <2>2, <2>3 DEF ClaimForAttempt
<1>4. CASE s = Worker /\ ClaimDue
  <2>1. PICK j \in JobId : /\ rows[j].state = "pending"
                           /\ Write(j, Leased(rows[j])) /\ Goes(s, Claimed(j))
    BY <1>4 DEF ClaimDue
  <2>. DEFINE r == Leased(rows[j])
              to == Claimed(j)
  <2>2. /\ UNCHANGED <<sweep, decisions, up, copies, chosen>> /\ up /\ sender[s].pc = "idle"
    BY <1>4 DEF ClaimDue, history
  <2>3. Becomes(rows[j], r, "inflight", rows[j].marked) /\ r.lease = "held"
    BY RowTyped, RowEffects
  <2>4. r.state = "inflight" /\ (r.kind \in TgKinds \/ r.last > j => ~CoroutinesDie)
    BY <2>3 DEF Becomes, SameJob, ReplayableKinds, Facts
  <2>5. to.pc = "checking" /\ to.job = j
    BY ClaimedMove
  <2>. HIDE DEF r, to
  <2>6. QED
    BY <2>1, <2>2, <2>3, <2>4, <2>5, TakesJob DEF Attempting, r, to
<1>5. CASE s = Worker /\ CheckTurn
  <2>1. /\ UNCHANGED <<rows, sweep, decisions, up, copies, chosen>>
        /\ sender[s].pc = "checking"
    BY <1>5 DEF CheckTurn, history
  <2>2. PICK to \in {Ended(sender[s], "defer"), At(sender[s], "preparing")} : Goes(s, to)
    BY <1>5 DEF CheckTurn
  <2>3. to \in Sender /\ to.pc \in {"settling", "preparing"} /\ to.job = sender[s].job
    BY <1>1, SenderMoves DEF Places, Verdicts
  <2>4. sender'[s] = to
    BY <2>2, MoveSender
  <2>5. QED
    BY <1>1, <2>1, <2>2, <2>3, <2>4, SenderMovesOn DEF Attempting, Unlanded
<1>6. CASE EndUnannounced(s) \/ RequestFails(s)
  <2>1. PICK v \in Verdicts : Goes(s, Ended(sender[s], v))
    BY <1>6 DEF EndUnannounced, RequestFails, Conclude, Verdicts
  <2>2. /\ UNCHANGED <<rows, sweep, decisions, up, copies, chosen>>
        /\ sender[s].pc \in {"preparing", "requesting"}
    BY <1>6 DEF EndUnannounced, RequestFails
  <2>. DEFINE to == Ended(sender[s], v)
  <2>3. to \in Sender /\ to.pc = "settling" /\ to.job = sender[s].job
    BY <1>1, SenderMoves
  <2>4. sender'[s] = to
    BY <2>1, MoveSender
  <2>. HIDE DEF to
  <2>5. QED
    BY <1>1, <2>1, <2>2, <2>3, <2>4, SenderMovesOn DEF Attempting, Unlanded, to
<1>7. CASE Dies(s)
  <2>1. /\ UNCHANGED <<rows, sweep, decisions, up, copies, chosen>>
        /\ sender[s].pc # "idle" /\ Goes(s, Idle) /\ CoroutinesDie
    BY <1>7 DEF Dies
  <2>2. sender'[s] = Idle
    BY <2>1, MoveSender
  <2>3. QED
    BY <1>1, <2>1, <2>2, SenderMoves, SenderMovesOn DEF Attempting, Unlanded
<1>8. QED
  BY <1>2, <1>3, <1>4, <1>5, <1>6, <1>7

\* A live event, new or handled again.
LEMMA StepEvent ==
    ASSUME TypeOK, Facts, Safe, NEW s \in Handlers,
           \/ \E k \in Kinds : SubmitAlone(s, k)
           \/ \E v \in {"permanent", "noop"} : SubmitRefusal(s, v)
           \/ \E j \in JobId : Replay(s, j)
    PROVE  Facts'
<1>. USE TypeParts, OutboxAssumption
<1>1. s \in Senders /\ \A j \in JobId : j \in Nat /\ j \in 0..MaxJobs /\ j # 0
  BY DEF Senders, JobId
<1>2. ASSUME NEW k \in Kinds, SubmitAlone(s, k) PROVE Facts'
  <2>1. PICK j \in JobId : /\ NextId(j) /\ Write(j, BornLeased(k, "full", j))
                           /\ Goes(s, Begin("preparing", j))
    BY <1>2 DEF SubmitAlone
  <2>. DEFINE r == BornLeased(k, "full", j)
              to == Begin("preparing", j)
  <2>2. /\ UNCHANGED <<sweep, decisions, up, copies, chosen>> /\ up /\ sender[s].pc = "idle"
    BY <1>2 DEF SubmitAlone, history
  <2>3. rows[j].state = "absent"
    BY <1>1, <2>1 DEF NextId
  <2>4. r.state = "inflight" /\ r.kind = k /\ r.last = j /\ r.lease = "held"
    BY <1>1, NewRows DEF NewJob
  <2>5. r.kind \in TgKinds \/ r.last > j => ~CoroutinesDie
    BY <1>1, <2>4 DEF Safe, MaxKinds, TgKinds
  <2>6. to.pc = "preparing" /\ to.job = j
    BY <1>1, SenderMoves DEF Places
  <2>. HIDE DEF r, to
  <2>7. QED
    BY <1>1, <2>1, <2>2, <2>3, <2>4, <2>5, <2>6, TakesJob DEF Attempting, r, to
<1>3. ASSUME NEW v \in {"permanent", "noop"}, SubmitRefusal(s, v) PROVE Facts'
  <2>1. PICK j \in JobId : /\ NextId(j) /\ Write(j, BornLeased("max_send", "stub", j))
                           /\ Goes(s, Ended(Begin("settling", j), v))
    BY <1>3 DEF SubmitRefusal
  <2>. DEFINE r == BornLeased("max_send", "stub", j)
              to == Ended(Begin("settling", j), v)
  <2>2. /\ UNCHANGED <<sweep, decisions, up, copies, chosen>> /\ up /\ sender[s].pc = "idle"
    BY <1>3 DEF SubmitRefusal, history
  <2>3. rows[j].state = "absent"
    BY <1>1, <2>1 DEF NextId
  <2>4. r.state = "inflight" /\ r.kind = "max_send" /\ r.last = j /\ r.lease = "held"
    BY <1>1, NewRows DEF NewJob, AllKinds, MaxKinds
  <2>5. r.kind \in TgKinds \/ r.last > j => ~CoroutinesDie
    BY <1>1, <2>4 DEF TgKinds
  <2>6. to.pc = "settling" /\ to.job = j
    <3>1. Begin("settling", j) \in Sender /\ Begin("settling", j).job = j
      BY <1>1, SenderMoves DEF Places
    <3>2. QED
      BY <3>1, SenderMoves DEF Verdicts
  <2>. HIDE DEF r, to
  <2>7. QED
    BY <1>1, <2>1, <2>2, <2>3, <2>4, <2>5, <2>6, TakesJob DEF Attempting, r, to
<1>4. ASSUME NEW j \in JobId, Replay(s, j) PROVE Facts'
  <2>1. PICK pc \in {"claiming", "ordering"} : Goes(s, Begin(pc, j))
    BY <1>4 DEF Replay
  <2>. DEFINE to == Begin(pc, j)
  <2>2. /\ UNCHANGED <<rows, sweep, decisions, up, copies, chosen>> /\ up
        /\ sender[s].pc = "idle" /\ rows[j].kind \in TgKinds
    BY <1>4 DEF Replay, KindOf
  <2>3. ~CoroutinesDie
    BY <2>2 DEF ReplayableKinds, Facts
  <2>4. to \in Sender /\ to.pc \in {"claiming", "ordering"} /\ to.job = j
    BY <1>1, SenderMoves DEF Places
  <2>5. sender'[s] = to
    BY <1>1, <2>1, MoveSender
  <2>. HIDE DEF to
  <2>6. QED
    BY <1>1, <2>1, <2>2, <2>3, <2>4, <2>5, SenderMovesOn DEF Attempting, Unlanded, to
<1>5. QED
  BY <1>2, <1>3, <1>4

\* No step of a sender, the sweeper, the owner, the clock or a crash breaks the
\* invariant, under Safe: one case per group of actions.
LEMMA InvariantStep == Safe /\ IInv /\ [Next]_vars => IInv'
<1>. SUFFICES ASSUME Safe, TypeOK, Facts, [Next]_vars PROVE Facts' /\ TypeOK'
  BY InvariantParts DEF IInv, Facts
<1>1. TypeOK'
  BY TypeStep
<1>2. CASE \E s \in Handlers : \/ Submit(s)
                               \/ \E v \in {"permanent", "noop"} : SubmitRefusal(s, v)
                               \/ \E j \in JobId : Replay(s, j)
  <2>1. PICK s \in Handlers : \/ Submit(s)
                             \/ \E v \in {"permanent", "noop"} : SubmitRefusal(s, v)
                             \/ \E j \in JobId : Replay(s, j)
    BY <1>2
  <2>2. CASE \E k \in Kinds, n \in 1..MaxParts : SubmitInOrder(s, k, n)
    BY <1>1, <2>2, StepSubmitInOrder
  <2>3. CASE \E k \in Kinds : SubmitAlone(s, k)
    BY <1>1, <2>3, StepEvent
  <2>4. CASE \/ \E v \in {"permanent", "noop"} : SubmitRefusal(s, v)
             \/ \E j \in JobId : Replay(s, j)
    BY <1>1, <2>4, StepEvent
  <2>5. QED
    BY <2>1, <2>2, <2>3, <2>4 DEF Submit
<1>3. CASE \E s \in Handlers : HandlerSteps(s)
  <2>1. PICK s \in Handlers : HandlerSteps(s)
    BY <1>3
  <2>2. s \in Senders
    BY DEF Senders
  <2>3. QED
    BY <1>1, <2>1, <2>2, StepSender, StepAnnounce, StepRequestLands, StepSettle, StepArchiveNoop
    DEF HandlerSteps, Attempt
<1>4. CASE WorkerSteps
  <2>1. Worker \in Senders
    BY DEF Senders
  <2>2. QED
    BY <1>1, <1>4, <2>1, StepSender, StepAnnounce, StepRequestLands, StepSettle
    DEF WorkerSteps, Attempt
<1>5. CASE Sweeper \/ Restart \/ Started
  <2>1. CASE SweepReads \/ ExpiryReads \/ SweepEnds \/ Restart \/ Started
    BY <1>1, <2>1, StepSweeperReads
  <2>2. ASSUME NEW found \in sweep.todo, RecoverOne(found) PROVE Facts'
    BY <2>2, StepRecoverOne
  <2>3. ASSUME NEW found \in sweep.todo, ExpireOne(found) PROVE Facts'
    BY <2>3, StepExpireOne
  <2>4. QED
    BY <1>1, <1>5, <2>1, <2>2, <2>3 DEF Sweeper
<1>6. CASE Owner
  <2>1. ASSUME NEW j \in JobId, NEW op \in {"retry", "resolve", "archive"}, Decide(op, j)
        PROVE  Facts'
    BY <2>1, StepDecide
  <2>2. ASSUME NEW d \in decisions, ApplyRetry(d) \/ ApplyResolve(d) \/ ApplyArchive(d)
        PROVE  Facts'
    BY <2>2, StepApply
  <2>3. ASSUME NEW j \in JobId, Withdraw(j) PROVE Facts'
    BY <2>3, StepWithdraw
  <2>4. QED
    BY <1>1, <1>6, <2>1, <2>2, <2>3 DEF Owner
<1>7. CASE Time
  <2>1. PICK j \in JobId : BecomesDue(j) \/ LeaseLapses(j) \/ GrowsOld(j)
    BY <1>7 DEF Time
  <2>2. Facts'
    BY <2>1, StepTime
  <2>3. QED
    BY <1>1, <2>2
<1>8. CASE (\E s \in Senders : Dies(s)) \/ Crash
  BY <1>1, <1>8, StepSender, StepCrash
<1>9. CASE UNCHANGED vars
  <2>1. UNCHANGED <<rows, sender, sweep, decisions, up, copies, chosen>>
    BY <1>9 DEF vars, history
  <2>2. \A t \in Senders : Attempting(t)' = Attempting(t) /\ Unlanded(t)' = Unlanded(t)
    BY <2>1 DEF Attempting, Unlanded
  <2>3. QED
    BY <1>1, <2>1, <2>2 DEF Facts, DownIsQuiet, OneAttempt, ReplayableKinds, HeldRows,
              LapsedRows, Allowance, NoUnchosenDuplicate, AllFound, LiveRows, FoundRows,
              DecidedRows
<1>10. QED
  BY <1>1, <1>2, <1>3, <1>4, <1>5, <1>6, <1>7, <1>8, <1>9 DEF Next

\* Under Safe the invariant holds of every behaviour of the queue.
THEOREM InvariantHolds == Safe => (Spec => []IInv)
<1>. SUFFICES ASSUME Safe PROVE Spec => []IInv
  OBVIOUS
<1>1. IInv /\ [Next]_vars => IInv'
  BY InvariantStep
<1>2. QED
  BY InvariantInit, <1>1, PTL DEF Spec

\* The queue never makes a second copy of a message on its own: at most one, and
\* one more for every time the owner retried a job of unknown fate.
THEOREM NeverDuplicates == Safe => (Spec => []NoUnchosenDuplicate)
<1>1. IInv => NoUnchosenDuplicate
  BY DEF IInv, Allowance
<1>2. QED
  BY InvariantHolds, <1>1, PTL

\* The lease is exclusive: inline senders and the worker never carry out the
\* same job together.
THEOREM LeaseIsExclusive == Safe => (Spec => []OneAttempt)
<1>1. IInv => OneAttempt
  BY DEF IInv
<1>2. QED
  BY InvariantHolds, <1>1, PTL

\* What the remote side has, or may have, is never shown as waiting or refused.
THEOREM LandedNeverUnsent == Safe => (Spec => []LandedIsNeverUnsent)
<1>1. IInv => LandedIsNeverUnsent
  BY DEF IInv, Allowance, LandedIsNeverUnsent
<1>2. QED
  BY InvariantHolds, <1>1, PTL

-----------------------------------------------------------------------------
(* The queue without a TTL: the order of delivery and the promise *)

\* No statement touches the deadline of a job, and none but MarkExpired retires it.
LEMMA DeadlineKept ==
    ASSUME NEW r \in Row
    PROVE  /\ Leased(r).overdue = r.overdue /\ MarkSending(r).overdue = r.overdue
           /\ Requeue(r).overdue = r.overdue /\ MarkAmbiguous(r).overdue = r.overdue
           /\ RetryNow(r).overdue = r.overdue /\ Resolve(r).overdue = r.overdue
           /\ Archive(r).overdue = r.overdue /\ ComesDue(r).overdue = r.overdue
           /\ LosesLease(r).overdue = r.overdue
           /\ \A s : Settled(s, r).overdue = r.overdue
<1>. USE DEF Row
<1>1. /\ Leased(r).overdue = r.overdue /\ MarkSending(r).overdue = r.overdue
      /\ Requeue(r).overdue = r.overdue /\ MarkAmbiguous(r).overdue = r.overdue
      /\ RetryNow(r).overdue = r.overdue /\ Resolve(r).overdue = r.overdue
      /\ Archive(r).overdue = r.overdue /\ ComesDue(r).overdue = r.overdue
      /\ LosesLease(r).overdue = r.overdue
  BY DEF Leased, MarkSending, Requeue, MarkAmbiguous, RetryNow, Resolve, Archive,
         ComesDue, LosesLease
<1>2. /\ MarkDone(r).overdue = r.overdue /\ MarkFailed(r).overdue = r.overdue
      /\ Defer(r).overdue = r.overdue
      /\ \A cost, due : MarkRetry(r, cost, due).overdue = r.overdue
  BY DEF MarkDone, MarkFailed, Defer, MarkRetry
<1>. HIDE DEF Row
<1>3. ASSUME NEW s PROVE Settled(s, r).overdue = r.overdue
  <2>1. HandleFailure(r, sender[s].tries).overdue = r.overdue
    BY <1>2 DEF HandleFailure
  <2>. QED BY <1>1, <1>2, <2>1 DEF Settled
<1>. QED BY <1>1, <1>3

\* What the verdict makes of the row, verdict by verdict.
LEMMA SettledStates ==
    ASSUME NEW s, NEW r \in Row
    PROVE  LET v == sender[s].verdict
               to == Settled(s, r).state IN
           /\ v = "done" => to = "done"
           /\ v = "unconfirmed" => to = "ambiguous"
           /\ v \notin {"done", "unconfirmed"} => to \in {"pending", "failed"}
           /\ v = "noop" => to = "failed"
<1>1. /\ MarkDone(r).state = "done" /\ MarkAmbiguous(r).state = "ambiguous"
      /\ MarkFailed(r).state = "failed" /\ Defer(r).state = "pending"
      /\ \A cost \in Nat, due \in BOOLEAN : MarkRetry(r, cost, due).state = "pending"
  <2>1. /\ Becomes(r, MarkDone(r), "done", FALSE)
        /\ Becomes(r, MarkAmbiguous(r), "ambiguous", r.marked)
        /\ Becomes(r, MarkFailed(r), "failed", r.marked)
        /\ Becomes(r, Defer(r), "pending", FALSE)
        /\ \A cost \in Nat, due \in BOOLEAN :
             Becomes(r, MarkRetry(r, cost, due), "pending", FALSE)
    BY RowEffects
  <2>. QED BY <2>1 DEF Becomes
<1>2. HandleFailure(r, sender[s].tries).state \in {"pending", "failed"}
  BY <1>1 DEF HandleFailure
<1>. QED BY <1>1, <1>2 DEF Settled

\* How a step may treat a row that is there without disturbing the order.
Kept(i) == /\ SameJob(rows[i], rows'[i])
           /\ rows'[i].state = "absent" <=> rows[i].state = "absent"
           /\ ~rows'[i].overdue /\ rows'[i].state # "expired"
           /\ Undelivered(rows'[i]) => Undelivered(rows[i]) \/ i \in reopened'

\* Where a step may take a sender without disturbing the order.
Proceeds(t) == /\ sender'[t].pc # "idle" => rows[sender'[t].job].state # "absent"
               /\ sender'[t].pc \in Underway => Foremost(t, sender'[t].job)

\* A step that moves rows and senders so keeps the order.
LEMMA OrderKept ==
    ASSUME TypeOK, TypeOK', CalmInv,
           \A i \in JobId : Kept(i), \A t \in Senders : Proceeds(t),
           reopened \subseteq reopened',
           sweep'.pc = "expire" => sweep'.todo = {}
    PROVE  NoneExpires' /\ NoGaps' /\ TurnStays'
<1>. USE TypeParts
<1>1. NoneExpires'
  BY DEF Kept, NoneExpires
<1>2. \A t \in Senders : sender'[t].pc # "idle" => sender'[t].job \in JobId
  BY DEF SenderOK
<1>3. \A i \in JobId : rows'[i].kind = rows[i].kind /\ rows'[i].last = rows[i].last
  BY DEF Kept, SameJob
<1>4. NoGaps'
  BY <1>2, <1>3 DEF Kept, Proceeds, NoGaps, CalmInv
<1>5. TurnStays'
  <2>. SUFFICES ASSUME NEW t \in Senders, sender'[t].pc \in Underway,
                       NEW i \in 1..(sender'[t].job - 1),
                       Ahead(i, t, sender[t].job)', Undelivered(rows'[i])
                PROVE  i \in reopened'
    BY DEF TurnStays, Foremost
  <2>1. sender'[t].job \in JobId /\ i \in JobId
    BY <1>2, OutboxAssumption DEF Underway, JobId
  <2>2. Ahead(i, t, sender'[t].job)
    BY <1>3, <2>1 DEF Ahead, KindOf
  <2>3. Undelivered(rows[i]) => i \in reopened
    BY <2>2 DEF Proceeds, Foremost
  <2>. QED BY <2>1, <2>3 DEF Kept
<1>. QED BY <1>1, <1>4, <1>5

\* A sender that stands still, or ends, proceeds.
LEMMA StandsStill ==
    ASSUME CalmInv, NEW t \in Senders, sender'[t] = sender[t] \/ sender'[t].pc = "idle"
    PROVE  Proceeds(t)
BY DEF CalmInv, NoGaps, TurnStays, Proceeds, Underway

\* A step that leaves the table alone keeps it.
LEMMA TableKept ==
    ASSUME CalmInv, rows' = rows
    PROVE  \A i \in JobId : Kept(i)
BY DEF CalmInv, NoneExpires, Kept, SameJob

\* A statement on one row of the table keeps the table, if it neither retires the
\* row nor brings it back to life on its own.
LEMMA RowKept ==
    ASSUME TypeOK, CalmInv, NEW j \in JobId, NEW r, Write(j, r), SameJob(rows[j], r),
           rows[j].state # "absent", r.state \notin {"absent", "expired"},
           r.overdue = rows[j].overdue,
           Undelivered(r) => Undelivered(rows[j]) \/ j \in reopened'
    PROVE  \A i \in JobId : Kept(i)
<1>. USE TypeParts
<1>1. rows'[j] = r /\ \A i \in JobId \ {j} : rows'[i] = rows[i]
  BY WriteRow
<1>. QED BY <1>1 DEF Kept, SameJob, CalmInv, NoneExpires

\* A statement on one row leaves everybody else where he was, if the sender, the
\* commands and the sweeper it concerns are the ones it says.
LEMMA OthersUndisturbed ==
    ASSUME TypeOK, TypeOK', CalmInv, NEW j \in JobId, NEW r, Write(j, r),
           \A t \in Senders : Attempting(t)' =>
             \/ sender'[t].job = j /\ r.state = "inflight"
             \/ sender'[t].job # j /\ Attempting(t) /\ sender'[t].job = sender[t].job,
           \A t \in Handlers : sender'[t].pc = "archiving" =>
             \/ sender'[t].job = j /\ r.state \in {"failed", "archived"}
             \/ sender'[t].job # j /\ sender'[t] = sender[t],
           \A d \in decisions' : d \in decisions /\ d.job # j,
           sweep'.pc = sweep.pc, sweep'.todo \subseteq sweep.todo,
           sweep.pc \in {"reclaim", "recover"} =>
             \A found \in sweep'.todo : found.job # j \/ r.state = "inflight"
    PROVE  Undisturbed'
<1>. USE TypeParts
<1>1. rows'[j] = r /\ \A i \in JobId \ {j} : rows'[i] = rows[i]
  BY WriteRow
<1>2. \A t \in Senders : sender'[t].pc # "idle" => sender'[t].job \in JobId
  BY DEF SenderOK
<1>3. (\A d \in decisions : d.job \in JobId) /\ (\A found \in sweep.todo : found.job \in JobId)
  BY DEF SweepOK, Decision, Found
<1>4. \A s \in Senders : Attempting(s)' => rows'[sender'[s].job].state = "inflight"
  BY <1>1, <1>2 DEF Undisturbed, CalmInv, Attempting
<1>5. ASSUME NEW s \in Handlers, sender'[s].pc = "archiving"
      PROVE  /\ rows'[sender'[s].job].state \in {"failed", "archived"}
             /\ \A d \in decisions' : d.job # sender'[s].job
  BY <1>1, <1>2, <1>5 DEF Undisturbed, CalmInv, Senders
<1>6. \A d \in decisions' : /\ rows'[d.job].state = d.seen
                            /\ d.op = "resolve" => d.seen = "ambiguous"
  BY <1>1, <1>3 DEF Undisturbed, CalmInv
<1>7. sweep'.pc \in {"reclaim", "recover"} =>
         \A found \in sweep'.todo : rows'[found.job].state = "inflight"
  BY <1>1, <1>3 DEF Undisturbed, CalmInv
<1>. QED BY <1>4, <1>5, <1>6, <1>7 DEF Undisturbed

\* What the promise sees of the queue.
Standing == [j \in JobId |-> StandingOf(rows[j].state)]
Making   == {j \in JobId : rows[j].state # "absent" /\ Creating(KindOf(j))}
Allowed  == [j \in JobId |-> 1 + chosen[j]]

\* A step of the queue is a step of the promise or none, and keeps the invariant.
Advances == CalmInv' /\ [Promise!Next]_(Promise!vars)

\* Leased or not, a message waits; a verdict is shown as it is.
LEMMA WaitingStates ==
    /\ StandingOf("absent") = "unknown" /\ StandingOf("done") = "delivered"
    /\ StandingOf("pending") = "waiting" /\ StandingOf("inflight") = "waiting"
    /\ \A state \in {"failed", "ambiguous", "expired", "archived"} : StandingOf(state) = state
BY DEF StandingOf

\* Leases, attempts, backoff and recovery are nothing to the promise.
LEMMA PromiseRests ==
    ASSUME \A i \in JobId : Kept(i), UNCHANGED <<copies, chosen>>,
           \A i \in JobId : StandingOf(rows'[i].state) = StandingOf(rows[i].state)
    PROVE  [Promise!Next]_(Promise!vars)
<1>1. Standing' = Standing /\ Allowed' = Allowed
  BY DEF Standing, Allowed
<1>2. Making' = Making
  BY DEF Making, Kept, SameJob, KindOf
<1>. QED BY <1>1, <1>2 DEF Promise!vars, Standing, Allowed, Making

\* One row that changes its standing moves one message of the promise.
LEMMA PromiseMoves ==
    ASSUME TypeOK, NEW j \in JobId, NEW r, Write(j, r), \A i \in JobId : Kept(i)
    PROVE  /\ Promise!Move(j, StandingOf(rows[j].state), StandingOf(r.state))
           /\ Making' = Making
           /\ j \in Making <=> rows[j].state # "absent" /\ Creating(KindOf(j))
<1>. USE TypeParts
<1>1. rows'[j] = r /\ \A i \in JobId \ {j} : rows'[i] = rows[i]
  BY WriteRow
<1>2. Standing[j] = StandingOf(rows[j].state)
  BY DEF Standing
<1>3. Standing' = [Standing EXCEPT ![j] = StandingOf(r.state)]
  BY <1>1 DEF Standing
<1>4. Making' = Making
  BY DEF Making, Kept, SameJob, KindOf
<1>5. j \in Making <=> rows[j].state # "absent" /\ Creating(KindOf(j))
  BY DEF Making
<1>. QED BY <1>2, <1>3, <1>4, <1>5 DEF Promise!Move, Standing

-----------------------------------------------------------------------------
(* Every action, under Unhurried *)

\* The empty table is calm, and is where the promise starts.
LEMMA CalmInit == Init => CalmInv /\ Promise!Init
<1>. SUFFICES ASSUME Init PROVE CalmInv /\ Promise!Init
  OBVIOUS
<1>1. /\ \A s \in Senders : sender[s].pc = "idle" /\ sender[s].job = 0
      /\ \A j \in JobId : rows[j] = NoRow
      /\ \A j \in JobId : copies[j] = 0 /\ chosen[j] = 0
      /\ up = TRUE /\ decisions = {} /\ sweep.pc = "idle" /\ sweep.todo = {}
  BY SenderMoves DEF Init, Asleep
<1>2. \A j \in JobId : /\ rows[j].state = "absent" /\ rows[j].kind = "none"
                       /\ rows[j].overdue = FALSE
  BY <1>1 DEF NoRow
<1>3. NoneExpires /\ Undisturbed /\ DoneHasLanded
  BY <1>1, <1>2 DEF NoneExpires, Undisturbed, DoneHasLanded, Attempting, Senders
<1>4. NoGaps /\ TurnStays
  BY <1>1, <1>2 DEF NoGaps, TurnStays, Underway
<1>5. Standing = [j \in JobId |-> "unknown"] /\ Making = {}
  BY <1>2, WaitingStates DEF Standing, Making
<1>6. copies = [j \in JobId |-> 0] /\ Allowed = [j \in JobId |-> 1]
  BY DEF Init, Allowed
<1>. QED BY <1>3, <1>4, <1>5, <1>6 DEF CalmInv, Promise!Init, Standing, Making, Allowed

\* A sender that moves on, writing nothing.
LEMMA CalmMove ==
    ASSUME TypeOK, TypeOK', CalmInv, NEW s \in Senders, NEW to, Goes(s, to),
           UNCHANGED <<rows, sweep, decisions, copies, chosen, reopened>>,
           to.pc # "idle" => Proceeds(s),
           Attempting(s)' => Attempting(s) /\ to.job = sender[s].job,
           to.pc # "archiving",
           to.pc = "settling" /\ to.verdict = "done" => ~Creating(KindOf(to.job))
    PROVE  Advances
<1>. USE TypeParts
<1>0. /\ sender'[s] = to /\ \A t \in Senders \ {s} : sender'[t] = sender[t]
      /\ \A t \in Senders \ {s} : Attempting(t)' = Attempting(t)
  BY MoveSender DEF Attempting
<1>1. (\A t \in Senders : Proceeds(t)) /\ (\A i \in JobId : Kept(i))
  BY <1>0, StandsStill, TableKept
<1>2. NoneExpires' /\ NoGaps' /\ TurnStays'
  BY <1>1, OrderKept DEF CalmInv, NoneExpires
<1>3. Undisturbed'
  BY <1>0 DEF Undisturbed, CalmInv, Senders
<1>4. DoneHasLanded'
  BY <1>0 DEF DoneHasLanded, CalmInv, KindOf
<1>5. [Promise!Next]_(Promise!vars)
  BY <1>1, PromiseRests
<1>. QED BY <1>2, <1>3, <1>4, <1>5 DEF Advances, CalmInv

\* A clock passing a column of a row: the owner sees nothing of it.
LEMMA CalmTime ==
    ASSUME TypeOK, TypeOK', CalmInv, Unhurried, NEW j \in JobId,
           BecomesDue(j) \/ LeaseLapses(j) \/ GrowsOld(j)
    PROVE  Advances
<1>. USE TypeParts
<1>1. /\ rows[j].state \in {"pending", "inflight"}
      /\ UNCHANGED <<sender, sweep, decisions, copies, chosen, reopened>>
  BY DEF BecomesDue, LeaseLapses, GrowsOld, Undelivered, history
<1>2. PICK r \in {ComesDue(rows[j]), LosesLease(rows[j])} : Write(j, r)
  BY DEF BecomesDue, LeaseLapses, GrowsOld, Unhurried
<1>3. SameJob(rows[j], r) /\ r.state = rows[j].state /\ r.overdue = rows[j].overdue
  <2>1. /\ Becomes(rows[j], ComesDue(rows[j]), rows[j].state, rows[j].marked)
        /\ Becomes(rows[j], LosesLease(rows[j]), rows[j].state, rows[j].marked)
        /\ ComesDue(rows[j]).overdue = rows[j].overdue
        /\ LosesLease(rows[j]).overdue = rows[j].overdue
    BY RowTyped, RowEffects, DeadlineKept
  <2>. QED BY <1>2, <2>1 DEF Becomes
<1>4. rows'[j] = r /\ \A i \in JobId \ {j} : rows'[i] = rows[i]
  BY <1>2, WriteRow
<1>5. (\A i \in JobId : Kept(i)) /\ (\A t \in Senders : Proceeds(t))
  BY <1>1, <1>2, <1>3, RowKept, StandsStill DEF Undelivered
<1>6. NoneExpires' /\ NoGaps' /\ TurnStays'
  BY <1>1, <1>5, OrderKept DEF CalmInv, NoneExpires
<1>7. \A i \in JobId : rows'[i].state = rows[i].state /\ rows'[i].kind = rows[i].kind
  BY <1>3, <1>4 DEF SameJob
<1>8. \A t \in Senders : sender[t].pc # "idle" => sender[t].job \in JobId
  BY DEF SenderOK
<1>9. (\A d \in decisions : d.job \in JobId) /\ (\A found \in sweep.todo : found.job \in JobId)
  BY DEF SweepOK, Decision, Found
<1>10. Undisturbed'
  BY <1>1, <1>7, <1>8, <1>9 DEF Undisturbed, CalmInv, Attempting, Senders
<1>11. DoneHasLanded'
  BY <1>1, <1>7, <1>8 DEF DoneHasLanded, CalmInv, KindOf
<1>12. [Promise!Next]_(Promise!vars)
  BY <1>1, <1>5, <1>7, PromiseRests
<1>. QED BY <1>6, <1>10, <1>11, <1>12 DEF Advances, CalmInv

\* Whoever carries a job out is alone with it, and its row is leased.
LEMMA AloneWithRow ==
    ASSUME TypeOK, Facts, CalmInv, NEW s \in Senders, Attempting(s)
    PROVE  LET j == sender[s].job IN
           /\ j \in JobId /\ rows[j] \in Row /\ rows[j].state = "inflight"
           /\ \A t \in Senders \ {s} : Attempting(t) => sender[t].job # j
           /\ \A t \in Handlers : sender[t].pc = "archiving" => sender[t].job # j
           /\ \A d \in decisions : d.job # j
           /\ sweep.pc \in {"reclaim", "recover"} => \A found \in sweep.todo : found.job # j
<1>. USE TypeParts
<1>. DEFINE j == sender[s].job
<1>1. j \in JobId /\ rows[j] \in Row
  BY SenderTyped, RowTyped DEF Attempting
<1>2. rows[j].state = "inflight"
  BY DEF Undisturbed, CalmInv
<1>3. \A t \in Senders \ {s} : Attempting(t) => sender[t].job # j
  BY DEF OneAttempt, Facts
<1>4. \A t \in Handlers : sender[t].pc = "archiving" => sender[t].job # j
  BY <1>2 DEF Undisturbed, CalmInv
<1>5. \A d \in decisions : d.seen \in {"failed", "ambiguous", "expired"}
  BY DEF SweepOK, Decision
<1>6. \A d \in decisions : d.job # j
  BY <1>2, <1>5 DEF Undisturbed, CalmInv
<1>7. sweep.pc \in {"reclaim", "recover"} => \A found \in sweep.todo : found.job # j
  BY DEF FoundRows, Facts
<1>. QED BY <1>1, <1>2, <1>3, <1>4, <1>6, <1>7

\* claim_for_attempt and claim_due: a waiting row gets a sender, and waits on.
LEMMA CalmClaim ==
    ASSUME TypeOK, TypeOK', Facts, CalmInv, NEW s \in Senders, NEW to, Goes(s, to),
           NEW j \in JobId, Write(j, Leased(rows[j])), rows[j].state = "pending",
           UNCHANGED <<sweep, decisions, copies, chosen, reopened>>,
           ~Attempting(s), to.pc \in {"checking", "preparing"}, to.job = j,
           to.pc = "preparing" => Foremost(s, j)
    PROVE  Advances
<1>. USE TypeParts
<1>. DEFINE r == Leased(rows[j])
<1>0. /\ sender'[s] = to /\ \A t \in Senders \ {s} : sender'[t] = sender[t]
      /\ \A t \in Senders \ {s} : Attempting(t)' = Attempting(t)
  BY MoveSender DEF Attempting
<1>1. SameJob(rows[j], r) /\ r.state = "inflight" /\ r.overdue = rows[j].overdue
  <2>1. Becomes(rows[j], r, "inflight", rows[j].marked) /\ r.overdue = rows[j].overdue
    BY RowTyped, RowEffects, DeadlineKept
  <2>. QED BY <2>1 DEF Becomes
<1>2. Write(j, r)
  OBVIOUS
<1>. HIDE DEF r
<1>3. rows'[j] = r /\ \A i \in JobId \ {j} : rows'[i] = rows[i]
  BY <1>2, WriteRow
<1>4. \A i \in JobId : Kept(i)
  BY <1>1, <1>2, RowKept DEF Undelivered
<1>5. \A t \in Senders : Proceeds(t)
  BY <1>0, StandsStill DEF Proceeds, Underway
<1>6. NoneExpires' /\ NoGaps' /\ TurnStays'
  BY <1>4, <1>5, OrderKept DEF CalmInv, NoneExpires
<1>7. Undisturbed'
  <2>1. /\ \A t \in Senders : Attempting(t) => sender[t].job # j
        /\ \A t \in Handlers : sender[t].pc = "archiving" => sender[t].job # j
    BY DEF Undisturbed, CalmInv
  <2>2. \A d \in decisions : d.seen \in {"failed", "ambiguous", "expired"}
    BY DEF SweepOK, Decision
  <2>3. \A d \in decisions : d.job # j
    BY <2>2 DEF Undisturbed, CalmInv
  <2>. QED BY <1>0, <1>1, <1>2, <2>1, <2>3, OthersUndisturbed DEF Senders
<1>8. DoneHasLanded'
  <2>1. \A t \in Senders \ {s} : sender[t].pc = "settling" => sender[t].job \in JobId
    BY DEF SenderOK
  <2>. QED BY <1>0, <1>1, <1>3, <2>1 DEF DoneHasLanded, CalmInv, KindOf, SameJob
<1>9. [Promise!Next]_(Promise!vars)
  BY <1>1, <1>3, <1>4, WaitingStates, PromiseRests
<1>. QED BY <1>6, <1>7, <1>8, <1>9 DEF Advances, CalmInv

\* mark_sending: the owner sees nothing of it, and the turn is still the sender's.
LEMMA CalmAnnounce ==
    ASSUME TypeOK, TypeOK', Facts, CalmInv, NEW s \in Senders, Announce(s)
    PROVE  Advances
<1>. USE TypeParts
<1>. DEFINE j == sender[s].job
            r == MarkSending(rows[j])
            to == At(sender[s], "requesting")
<1>1. /\ sender[s].pc = "preparing" /\ Attempting(s) /\ Write(j, r) /\ Goes(s, to)
      /\ UNCHANGED <<sweep, decisions, copies, chosen, reopened>>
      /\ to.pc = "requesting" /\ to.job = j
  BY SenderTyped, SenderMoves DEF Announce, Attempting, history, Places
<1>2. /\ j \in JobId /\ rows[j] \in Row /\ rows[j].state = "inflight"
      /\ \A t \in Senders \ {s} : Attempting(t) => sender[t].job # j
      /\ \A t \in Handlers : sender[t].pc = "archiving" => sender[t].job # j
      /\ \A d \in decisions : d.job # j
      /\ sweep.pc \in {"reclaim", "recover"} => \A found \in sweep.todo : found.job # j
  BY <1>1, AloneWithRow
<1>3. SameJob(rows[j], r) /\ r.state = "inflight" /\ r.overdue = rows[j].overdue
  <2>1. Becomes(rows[j], r, rows[j].state, TRUE) /\ r.overdue = rows[j].overdue
    BY <1>2, RowEffects, DeadlineKept
  <2>. QED BY <1>2, <2>1 DEF Becomes
<1>. HIDE DEF r, to
<1>4. /\ sender'[s] = to /\ \A t \in Senders \ {s} : sender'[t] = sender[t]
      /\ \A t \in Senders : Attempting(t)' = Attempting(t)
  BY <1>1, MoveSender DEF Attempting
<1>5. Proceeds(s)
  BY <1>1, <1>2, <1>4 DEF Proceeds, TurnStays, CalmInv, Underway
<1>. HIDE DEF j
<1>6. rows'[j] = r /\ \A i \in JobId \ {j} : rows'[i] = rows[i]
  BY <1>1, <1>2, WriteRow
<1>7. \A i \in JobId : Kept(i)
  BY <1>1, <1>2, <1>3, RowKept DEF Undelivered
<1>8. NoneExpires' /\ NoGaps' /\ TurnStays'
  BY <1>1, <1>4, <1>5, <1>7, StandsStill, OrderKept DEF CalmInv, NoneExpires
<1>9. Undisturbed'
  BY <1>1, <1>2, <1>3, <1>4, OthersUndisturbed DEF Senders
<1>10. DoneHasLanded'
  <2>1. \A t \in Senders \ {s} : sender[t].pc = "settling" => sender[t].job \in JobId
    BY DEF SenderOK
  <2>. QED BY <1>1, <1>3, <1>4, <1>6, <2>1 DEF DoneHasLanded, CalmInv, KindOf, SameJob
<1>11. [Promise!Next]_(Promise!vars)
  BY <1>1, <1>2, <1>3, <1>6, <1>7, PromiseRests
<1>. QED BY <1>8, <1>9, <1>10, <1>11 DEF Advances, CalmInv

\* The one step that creates a message, which the promise still allows.
LEMMA CalmLands ==
    ASSUME TypeOK, TypeOK', Facts, CalmInv, NEW s \in Senders, RequestLands(s)
    PROVE  Advances
<1>. USE TypeParts
<1>. DEFINE j == sender[s].job
<1>1. PICK v \in {"done", "unconfirmed"} : Goes(s, Ended(sender[s], v))
  BY DEF RequestLands, Conclude
<1>2. /\ sender[s].pc = "requesting" /\ Attempting(s) /\ Unlanded(s)
      /\ copies' = [copies EXCEPT ![j] = @ + 1]
      /\ UNCHANGED <<rows, sweep, decisions, chosen, reopened>>
  BY DEF RequestLands, Attempting, Unlanded
<1>3. j \in JobId /\ rows[j].state = "inflight"
  BY <1>2, AloneWithRow
<1>4. /\ sender'[s].pc = "settling" /\ sender'[s].job = j
      /\ \A t \in Senders \ {s} : sender'[t] = sender[t]
      /\ \A t \in Senders : Attempting(t)' = Attempting(t)
  <2>1. /\ sender'[s].pc = "settling" /\ sender'[s].job = j
        /\ \A t \in Senders \ {s} : sender'[t] = sender[t]
    BY <1>1, MoveSender, SenderTyped, SenderMoves DEF Verdicts
  <2>. QED BY <1>2, <2>1 DEF Attempting
<1>5. /\ copies[j] \in Nat /\ chosen[j] \in Nat /\ copies[j] <= chosen[j]
      /\ copies'[j] = copies[j] + 1 /\ \A i \in JobId \ {j} : copies'[i] = copies[i]
  BY <1>2, <1>3 DEF HistoryOK, Allowance, Facts
<1>6. Proceeds(s)
  BY <1>3, <1>4 DEF Proceeds, Underway
<1>. HIDE DEF j
<1>7. \A i \in JobId : Kept(i)
  BY <1>2, TableKept
<1>8. NoneExpires' /\ NoGaps' /\ TurnStays'
  BY <1>2, <1>4, <1>6, <1>7, StandsStill, OrderKept DEF CalmInv, NoneExpires
<1>9. Undisturbed'
  <2>1. \A t \in Senders : Attempting(t)' => sender'[t].job = sender[t].job
    BY <1>4 DEF j
  <2>2. \A t \in Handlers : sender'[t].pc = "archiving" => sender'[t] = sender[t]
    BY <1>4 DEF Senders
  <2>. QED BY <1>2, <1>4, <2>1, <2>2 DEF Undisturbed, CalmInv
<1>10. DoneHasLanded'
  <2>1. \A t \in Senders : sender'[t].pc = "settling" => sender'[t].job \in JobId
    BY DEF SenderOK
  <2>. QED BY <1>2, <1>4, <1>5, <2>1 DEF DoneHasLanded, CalmInv, KindOf
<1>11. Promise!Land(j)
  <2>1. Standing' = Standing /\ Making' = Making /\ Allowed' = Allowed
    BY <1>2 DEF Standing, Making, Allowed, KindOf
  <2>2. Standing[j] = "waiting"
    BY <1>3, WaitingStates DEF Standing
  <2>3. copies[j] < Allowed[j]
    BY <1>3, <1>5 DEF Allowed
  <2>. QED BY <1>2, <2>1, <2>2, <2>3 DEF Promise!Land, Standing, Making, Allowed
<1>12. Promise!Next
  BY <1>3, <1>11 DEF Promise!Next
<1>. QED BY <1>8, <1>9, <1>10, <1>12 DEF Advances, CalmInv

\* mark_done, mark_ambiguous, mark_failed, mark_retry, defer: what the promise
\* calls confirming, asking, giving up or waiting on.
LEMMA CalmSettle ==
    ASSUME TypeOK, TypeOK', Facts, CalmInv, NEW s \in Senders, Settle(s)
    PROVE  Advances
<1>. USE TypeParts
<1>. DEFINE j == sender[s].job
            v == sender[s].verdict
            r == Settled(s, rows[j])
            to == Afterwards(s)
<1>1. /\ sender[s].pc = "settling" /\ Attempting(s) /\ Write(j, r) /\ Goes(s, to)
      /\ UNCHANGED <<sweep, decisions, copies, chosen, reopened>>
  BY DEF Settle, Attempting, history
<1>2. /\ j \in JobId /\ rows[j] \in Row /\ rows[j].state = "inflight"
      /\ \A t \in Senders \ {s} : Attempting(t) => sender[t].job # j
      /\ \A t \in Handlers : sender[t].pc = "archiving" => sender[t].job # j
      /\ \A d \in decisions : d.job # j
      /\ sweep.pc \in {"reclaim", "recover"} => \A found \in sweep.todo : found.job # j
  BY <1>1, AloneWithRow
<1>3. /\ SameJob(rows[j], r) /\ r.overdue = rows[j].overdue
      /\ v = "done" => r.state = "done"
      /\ v = "unconfirmed" => r.state = "ambiguous"
      /\ v \notin {"done", "unconfirmed"} => r.state \in {"pending", "failed"}
      /\ v = "noop" => r.state = "failed"
  BY <1>2, SettledRow, DeadlineKept, SettledStates
<1>4. /\ to.pc \in {"idle", "ordering", "archiving"}
      /\ to.pc # "idle" => to.job \in JobId
      /\ to.pc = "ordering" => to.job = j + 1 /\ rows[j].last > j
      /\ to.pc = "archiving" => to.job = j /\ v = "noop"
  <2>1. /\ to.pc \in {"idle", "ordering", "archiving"}
        /\ to.pc # "idle" => to.job \in JobId
        /\ to.pc = "ordering" => rows[j].last > j
        /\ to.pc = "archiving" => to.job = j /\ v = "noop"
    BY <1>1, AfterwardsMove
  <2>2. to = Begin("ordering", j + 1) \/ to.pc # "ordering"
    <3>1. Begin("archiving", j).pc = "archiving" /\ Idle.pc = "idle"
      BY <1>2, SenderMoves, OutboxAssumption DEF Places, JobId
    <3>. QED BY <3>1 DEF Afterwards
  <2>3. to.pc = "ordering" => to.job = j + 1
    BY <2>2 DEF Begin, Idle
  <2>. QED BY <2>1, <2>3
<1>5. to.pc = "ordering" => rows[to.job].state # "absent"
  <2>1. /\ rows[j].last \in JobId /\ rows[rows[j].last].state # "absent"
    BY <1>2 DEF NoGaps, CalmInv
  <2>2. ASSUME to.pc = "ordering" PROVE to.job = rows[j].last \/ to.job < rows[j].last
    BY <1>2, <1>4, <2>1, <2>2, OutboxAssumption DEF JobId
  <2>. QED BY <1>4, <2>1, <2>2 DEF NoGaps, CalmInv
<1>. HIDE DEF r, to
<1>6. /\ sender'[s] = to /\ \A t \in Senders \ {s} : sender'[t] = sender[t]
      /\ \A t \in Senders \ {s} : Attempting(t)' = Attempting(t)
      /\ ~Attempting(s)'
  BY <1>1, <1>4, MoveSender DEF Attempting
<1>7. Proceeds(s)
  BY <1>2, <1>4, <1>5, <1>6 DEF Proceeds, Underway
<1>8. rows'[j] = r /\ \A i \in JobId \ {j} : rows'[i] = rows[i]
  BY <1>1, <1>2, WriteRow
<1>9. Unlanded(s) <=> v \notin {"done", "unconfirmed"}
  BY <1>1 DEF Unlanded
<1>10. v = "done" /\ Creating(KindOf(j)) => copies[j] > 0
  BY <1>1 DEF DoneHasLanded, CalmInv
<1>11. v \notin {"done", "unconfirmed"} => copies[j] <= chosen[j]
  BY <1>9 DEF Allowance, Facts
<1>. HIDE DEF j, v
<1>12. \A i \in JobId : Kept(i)
  BY <1>1, <1>2, <1>3, RowKept DEF Undelivered
<1>13. NoneExpires' /\ NoGaps' /\ TurnStays'
  BY <1>1, <1>6, <1>7, <1>12, StandsStill, OrderKept DEF CalmInv, NoneExpires
<1>14. Undisturbed'
  BY <1>1, <1>2, <1>3, <1>4, <1>6, OthersUndisturbed DEF Senders
<1>15. DoneHasLanded'
  <2>1. \A t \in Senders \ {s} : sender[t].pc = "settling" => sender[t].job \in JobId
    BY DEF SenderOK
  <2>. QED BY <1>1, <1>3, <1>4, <1>6, <1>8, <2>1 DEF DoneHasLanded, CalmInv, KindOf, SameJob
<1>16. [Promise!Next]_(Promise!vars)
  <2>1. /\ Promise!Move(j, "waiting", StandingOf(r.state)) /\ Making' = Making
        /\ j \in Making => Creating(KindOf(j))
    BY <1>1, <1>2, <1>12, PromiseMoves, WaitingStates
  <2>2. Allowed' = Allowed /\ copies' = copies /\ Allowed[j] = 1 + chosen[j]
    BY <1>1, <1>2 DEF Allowed
  <2>3. copies[j] \in Nat /\ chosen[j] \in Nat
    BY <1>2 DEF HistoryOK
  <2>4. CASE v = "done"
    <3>1. Promise!Confirm(j)
      BY <1>3, <1>10, <2>1, <2>2, <2>4, WaitingStates DEF Promise!Confirm, Making, Allowed
    <3>. QED BY <1>2, <3>1 DEF Promise!Next
  <2>5. CASE v = "unconfirmed"
    <3>1. Promise!Ask(j)
      BY <1>3, <2>1, <2>2, <2>5, WaitingStates DEF Promise!Ask, Making, Allowed
    <3>. QED BY <1>2, <3>1 DEF Promise!Next
  <2>6. CASE v \notin {"done", "unconfirmed"} /\ r.state = "failed"
    <3>1. Promise!Move(j, "waiting", "failed") /\ copies[j] < Allowed[j]
      BY <1>11, <2>1, <2>2, <2>3, <2>6, WaitingStates
    <3>2. Promise!GiveUp(j)
      BY <2>1, <2>2, <3>1 DEF Promise!GiveUp, Making, Allowed
    <3>. QED BY <1>2, <3>2 DEF Promise!Next
  <2>7. CASE v \notin {"done", "unconfirmed"} /\ r.state = "pending"
    BY <1>1, <1>2, <1>8, <1>12, <2>7, WaitingStates, PromiseRests
  <2>. QED BY <1>3, <2>4, <2>5, <2>6, <2>7
<1>. QED BY <1>13, <1>14, <1>15, <1>16 DEF Advances, CalmInv

\* A statement on a row nobody carries out, finds or decides about any more.
LEMMA CalmRow ==
    ASSUME TypeOK, TypeOK', CalmInv, NEW j \in JobId, NEW r, Write(j, r), SameJob(rows[j], r),
           rows[j].state # "absent", r.state \notin {"absent", "expired"},
           r.overdue = rows[j].overdue,
           Undelivered(r) => Undelivered(rows[j]) \/ j \in reopened',
           reopened \subseteq reopened', UNCHANGED copies,
           \A t \in Senders : sender'[t] = sender[t] \/ sender'[t].pc = "idle",
           \A t \in Senders : Attempting(t) => sender[t].job # j,
           \A t \in Handlers : sender[t].pc = "archiving" =>
             sender[t].job # j \/ r.state \in {"failed", "archived"},
           \A d \in decisions' : d \in decisions /\ d.job # j,
           sweep'.pc = sweep.pc, sweep'.todo \subseteq sweep.todo,
           sweep.pc \in {"reclaim", "recover"} => \A found \in sweep'.todo : found.job # j
    PROVE  CalmInv' /\ \A i \in JobId : Kept(i)
<1>. USE TypeParts
<1>1. rows'[j] = r /\ \A i \in JobId \ {j} : rows'[i] = rows[i]
  BY WriteRow
<1>2. \A i \in JobId : Kept(i)
  BY RowKept
<1>3. NoneExpires' /\ NoGaps' /\ TurnStays'
  BY <1>2, StandsStill, OrderKept DEF CalmInv, NoneExpires
<1>4. Undisturbed'
  BY OthersUndisturbed DEF Attempting, Senders
<1>5. DoneHasLanded'
  <2>1. \A t \in Senders : sender[t].pc = "settling" => sender[t].job \in JobId
    BY DEF SenderOK
  <2>. QED BY <1>1, <2>1 DEF DoneHasLanded, CalmInv, KindOf, SameJob
<1>. QED BY <1>2, <1>3, <1>4, <1>5 DEF CalmInv

\* archive, as the last statement of submit_noop: the row is still the failed one,
\* or an archived one.
LEMMA CalmNoop ==
    ASSUME TypeOK, TypeOK', Facts, CalmInv, NEW s \in Handlers, ArchiveNoop(s)
    PROVE  Advances
<1>. USE TypeParts
<1>. DEFINE j == sender[s].job
            r == IF CanArchive(rows[j]) THEN Archive(rows[j]) ELSE rows[j]
<1>1. /\ sender[s].pc = "archiving" /\ j \in JobId /\ rows[j] \in Row
      /\ Write(j, r) /\ Goes(s, Idle)
      /\ UNCHANGED <<sweep, decisions, copies, chosen, reopened>>
  BY SenderTyped, RowTyped DEF ArchiveNoop, history, Senders
<1>2. rows[j].state \in {"failed", "archived"} /\ \A d \in decisions : d.job # j
  BY <1>1 DEF Undisturbed, CalmInv
<1>3. SameJob(rows[j], r) /\ r.state = "archived" /\ r.overdue = rows[j].overdue
  <2>1. /\ Becomes(rows[j], Archive(rows[j]), "archived", rows[j].marked)
        /\ Archive(rows[j]).overdue = rows[j].overdue
    BY <1>1, RowEffects, DeadlineKept
  <2>. QED BY <1>2, <2>1 DEF Becomes, SameJob, CanArchive
<1>4. \A t \in Senders : Attempting(t) => sender[t].job # j
  BY <1>2 DEF Undisturbed, CalmInv
<1>5. sweep.pc \in {"reclaim", "recover"} => \A found \in sweep.todo : found.job # j
  BY <1>2 DEF Undisturbed, CalmInv
<1>. HIDE DEF r, j
<1>6. \A t \in Senders : sender'[t] = sender[t] \/ sender'[t].pc = "idle"
  BY <1>1, MoveSender, SenderMoves DEF Senders
<1>7. CalmInv' /\ \A i \in JobId : Kept(i)
  BY <1>1, <1>2, <1>3, <1>4, <1>5, <1>6, CalmRow DEF Undelivered
<1>8. Promise!Move(j, StandingOf(rows[j].state), "archived") /\ Making' = Making
  BY <1>1, <1>3, <1>7, PromiseMoves, WaitingStates
<1>9. CASE rows[j].state = "failed"
  <2>1. Promise!SetAside(j)
    BY <1>1, <1>8, <1>9, WaitingStates DEF Promise!SetAside, Making
  <2>. QED BY <1>1, <1>7, <2>1 DEF Advances, Promise!Next
<1>10. CASE rows[j].state = "archived"
  <2>1. \A i \in JobId : rows'[i].state = rows[i].state
    BY <1>1, <1>3, <1>10, WriteRow
  <2>. QED BY <1>1, <1>7, <2>1, PromiseRests DEF Advances
<1>. QED BY <1>2, <1>9, <1>10

\* reclaim_expired_leases and requeue_inflight, one row: what may have landed is
\* put to the owner, the rest waits on.
LEMMA CalmRecover ==
    ASSUME TypeOK, TypeOK', Facts, CalmInv, NEW found \in sweep.todo, RecoverOne(found)
    PROVE  Advances
<1>. USE TypeParts
<1>. DEFINE j == found.job
            r == Recover(rows[j], found.marked)
<1>1. /\ j \in JobId /\ found.marked \in BOOLEAN /\ rows[j] \in Row
      /\ sweep.pc \in {"reclaim", "recover"} /\ Write(j, r)
      /\ UNCHANGED <<sender, decisions, copies, chosen, reopened>>
      /\ sweep'.pc = sweep.pc /\ sweep'.todo = sweep.todo \ {found}
  BY RowTyped DEF RecoverOne, history, SweepOK, Found
<1>2. rows[j].state = "inflight" /\ \A s \in Senders : sender[s].job # j
  BY <1>1 DEF FoundRows, Facts, Undisturbed, CalmInv
<1>3. SameJob(rows[j], r) /\ r.state \in {"ambiguous", "pending"} /\ r.overdue = rows[j].overdue
  <2>1. /\ Becomes(rows[j], MarkAmbiguous(rows[j]), "ambiguous", rows[j].marked)
        /\ Becomes(rows[j], Requeue(rows[j]), "pending", rows[j].marked)
        /\ MarkAmbiguous(rows[j]).overdue = rows[j].overdue
        /\ Requeue(rows[j]).overdue = rows[j].overdue
    BY <1>1, RowEffects, DeadlineKept
  <2>. QED BY <2>1 DEF Becomes, Recover
<1>4. \A other \in sweep'.todo : other.job # j
  <2>. SUFFICES ASSUME NEW other \in sweep.todo, other.job = j PROVE other = found
    BY <1>1
  <2>1. rows[j].marked = other.marked /\ rows[j].marked = found.marked
    BY <1>1 DEF FoundRows, Facts
  <2>2. other \in Found /\ found \in Found
    BY DEF SweepOK
  <2>3. \A f \in Found : f = [job |-> f.job, marked |-> f.marked]
    BY DEF Found
  <2>. QED BY <2>1, <2>2, <2>3
<1>5. \A d \in decisions : d.job # j
  <2>1. \A d \in decisions : d.seen \in {"failed", "ambiguous", "expired"}
    BY DEF SweepOK, Decision
  <2>. QED BY <1>2, <2>1 DEF Undisturbed, CalmInv
<1>. HIDE DEF r, j
<1>6. CalmInv' /\ \A i \in JobId : Kept(i)
  BY <1>1, <1>2, <1>3, <1>4, <1>5, CalmRow DEF Undelivered, Senders
<1>7. CASE r.state = "ambiguous"
  <2>1. Promise!Move(j, "waiting", "ambiguous") /\ Making' = Making
    BY <1>1, <1>2, <1>6, <1>7, PromiseMoves, WaitingStates
  <2>2. Promise!Ask(j)
    BY <1>1, <2>1 DEF Promise!Ask, Making
  <2>. QED BY <1>1, <1>6, <2>2 DEF Advances, Promise!Next
<1>8. CASE r.state = "pending"
  <2>1. \A i \in JobId : StandingOf(rows'[i].state) = StandingOf(rows[i].state)
    BY <1>1, <1>2, <1>8, WriteRow, WaitingStates
  <2>. QED BY <1>1, <1>6, <2>1, PromiseRests DEF Advances
<1>. QED BY <1>3, <1>7, <1>8

\* cancel_pending: what nobody has begun to send may be withdrawn.
LEMMA CalmWithdraw ==
    ASSUME TypeOK, TypeOK', Facts, CalmInv, NEW j \in JobId, Withdraw(j)
    PROVE  Advances
<1>. USE TypeParts
<1>. DEFINE r == Archive(rows[j])
<1>1. /\ rows[j].state = "pending" /\ Write(j, r)
      /\ UNCHANGED <<sender, sweep, decisions, copies, chosen, reopened>>
  BY DEF Withdraw, Withdrawable
<1>2. SameJob(rows[j], r) /\ r.state = "archived" /\ r.overdue = rows[j].overdue
  <2>1. Becomes(rows[j], r, "archived", rows[j].marked) /\ r.overdue = rows[j].overdue
    BY RowTyped, RowEffects, DeadlineKept
  <2>. QED BY <2>1 DEF Becomes
<1>3. \A d \in decisions : d.seen \in {"failed", "ambiguous", "expired"}
  BY DEF SweepOK, Decision
<1>4. /\ \A t \in Senders : Attempting(t) => sender[t].job # j
      /\ \A d \in decisions : d.job # j
      /\ sweep.pc \in {"reclaim", "recover"} => \A found \in sweep.todo : found.job # j
  BY <1>1, <1>3 DEF Undisturbed, CalmInv
<1>5. copies[j] \in Nat /\ chosen[j] \in Nat /\ copies[j] <= chosen[j]
  BY <1>1 DEF HistoryOK, Allowance, Facts
<1>. HIDE DEF r
<1>6. CalmInv' /\ \A i \in JobId : Kept(i)
  BY <1>1, <1>2, <1>4, CalmRow DEF Undelivered
<1>7. Promise!Move(j, "waiting", "archived") /\ Making' = Making
  BY <1>1, <1>2, <1>6, PromiseMoves, WaitingStates
<1>8. copies[j] < Allowed[j] /\ Allowed' = Allowed
  BY <1>1, <1>5 DEF Allowed
<1>9. Promise!SetAside(j)
  BY <1>1, <1>7, <1>8 DEF Promise!SetAside, Making, Allowed
<1>. QED BY <1>6, <1>9 DEF Advances, Promise!Next

\* retry_now, resolve, archive: the row stands where the owner was shown it, so
\* his command is the promise's.
LEMMA CalmApply ==
    ASSUME TypeOK, TypeOK', Facts, CalmInv, NEW d \in decisions,
           ApplyRetry(d) \/ ApplyResolve(d) \/ ApplyArchive(d)
    PROVE  Advances
<1>. USE TypeParts
<1>. DEFINE j == d.job
<1>1. /\ d \in Decision /\ j \in JobId /\ rows[j] \in Row
      /\ UNCHANGED <<sender, sweep, copies>>
      /\ decisions' = decisions \ {d}
      /\ chosen[j] \in Nat
  BY RowTyped DEF ApplyRetry, ApplyResolve, ApplyArchive, history, SweepOK, Decision, HistoryOK
<1>2. rows[j].state = d.seen /\ d.seen \in {"failed", "ambiguous"}
  <2>1. d.seen \in {"failed", "ambiguous", "expired"}
    BY <1>1 DEF Decision
  <2>. QED BY <1>1, <2>1 DEF Undisturbed, NoneExpires, CalmInv
<1>3. /\ \A e \in decisions' : e \in decisions /\ e.job # j
      /\ \A t \in Senders : Attempting(t) => sender[t].job # j
      /\ \A t \in Handlers : sender[t].pc = "archiving" => sender[t].job # j
      /\ sweep.pc \in {"reclaim", "recover"} => \A found \in sweep.todo : found.job # j
  BY <1>1, <1>2 DEF Undisturbed, CalmInv, DecidedRows, Facts
<1>4. /\ Becomes(rows[j], RetryNow(rows[j]), "pending", rows[j].marked)
      /\ Becomes(rows[j], Resolve(rows[j]), "done", rows[j].marked)
      /\ Becomes(rows[j], Archive(rows[j]), "archived", rows[j].marked)
      /\ RetryNow(rows[j]).overdue = rows[j].overdue
      /\ Resolve(rows[j]).overdue = rows[j].overdue
      /\ Archive(rows[j]).overdue = rows[j].overdue
  BY <1>1, RowEffects, DeadlineKept
<1>5. CASE ApplyRetry(d)
  <2>. DEFINE r == RetryNow(rows[j])
  <2>1. /\ Write(j, r) /\ reopened' = reopened \cup {j}
        /\ chosen' = [chosen EXCEPT ![j] = @ + (IF d.seen = "ambiguous" THEN 1 ELSE 0)]
    BY <1>5 DEF ApplyRetry
  <2>2. SameJob(rows[j], r) /\ r.state = "pending" /\ r.overdue = rows[j].overdue
    BY <1>4 DEF Becomes
  <2>. HIDE DEF r, j
  <2>3. CalmInv' /\ \A i \in JobId : Kept(i)
    BY <1>1, <1>2, <1>3, <2>1, <2>2, CalmRow
  <2>4. Promise!Move(j, d.seen, "waiting") /\ Making' = Making
    BY <1>1, <1>2, <2>1, <2>2, <2>3, PromiseMoves, WaitingStates
  <2>5. CASE d.seen = "ambiguous"
    <3>1. /\ chosen'[j] = chosen[j] + 1
          /\ \A i \in JobId \ {j} : chosen'[i] = chosen[i]
      BY <1>1, <2>1, <2>5 DEF HistoryOK
    <3>2. /\ Allowed'[j] = Allowed[j] + 1
          /\ \A i \in JobId \ {j} : Allowed'[i] = Allowed[i]
          /\ chosen[j] \in Nat
      BY <1>1, <3>1 DEF Allowed
    <3>3. Allowed' = [Allowed EXCEPT ![j] = @ + 1]
      BY <3>2 DEF Allowed
    <3>. QED BY <1>1, <2>3, <2>4, <2>5, <3>3
             DEF Advances, Promise!Next, Promise!TryAgain, Making, Allowed
  <2>6. CASE d.seen = "failed"
    <3>1. chosen' = chosen
      BY <1>1, <2>1, <2>6 DEF HistoryOK
    <3>2. Allowed' = Allowed
      BY <3>1 DEF Allowed
    <3>. QED BY <1>1, <2>3, <2>4, <2>6, <3>2
             DEF Advances, Promise!Next, Promise!TryAgain, Making, Allowed
  <2>. QED BY <1>2, <2>5, <2>6
<1>6. CASE ApplyResolve(d)
  <2>. DEFINE r == Resolve(rows[j])
  <2>1. Write(j, r) /\ UNCHANGED <<reopened, chosen>> /\ d.op = "resolve"
    BY <1>6 DEF ApplyResolve, history
  <2>2. SameJob(rows[j], r) /\ r.state = "done" /\ r.overdue = rows[j].overdue
    BY <1>4 DEF Becomes
  <2>3. d.seen = "ambiguous"
    BY <2>1 DEF Undisturbed, CalmInv
  <2>. HIDE DEF r, j
  <2>4. CalmInv' /\ \A i \in JobId : Kept(i)
    BY <1>1, <1>2, <1>3, <2>1, <2>2, CalmRow DEF Undelivered
  <2>5. Promise!Move(j, "ambiguous", "delivered") /\ Making' = Making
    BY <1>1, <1>2, <2>1, <2>2, <2>3, <2>4, PromiseMoves, WaitingStates
  <2>6. Promise!Vouch(j)
    BY <1>1, <2>1, <2>5 DEF Promise!Vouch, Making
  <2>. QED BY <1>1, <2>4, <2>6 DEF Advances, Promise!Next
<1>7. CASE ApplyArchive(d)
  <2>. DEFINE r == Archive(rows[j])
  <2>1. Write(j, r) /\ UNCHANGED <<reopened, chosen>>
    BY <1>7 DEF ApplyArchive, history
  <2>2. SameJob(rows[j], r) /\ r.state = "archived" /\ r.overdue = rows[j].overdue
    BY <1>4 DEF Becomes
  <2>. HIDE DEF r, j
  <2>3. CalmInv' /\ \A i \in JobId : Kept(i)
    BY <1>1, <1>2, <1>3, <2>1, <2>2, CalmRow DEF Undelivered
  <2>4. Promise!Move(j, d.seen, "archived") /\ Making' = Making
    BY <1>1, <1>2, <2>1, <2>2, <2>3, PromiseMoves, WaitingStates
  <2>5. Promise!SetAside(j)
    BY <1>1, <1>2, <2>1, <2>4 DEF Promise!SetAside, Making
  <2>. QED BY <1>1, <2>3, <2>5 DEF Advances, Promise!Next
<1>. QED BY <1>5, <1>6, <1>7

\* A command read, a sweep begun, continued or ended, or a crash: no row moves.
LEMMA CalmReads ==
    ASSUME TypeOK, TypeOK', CalmInv, Unhurried,
           \/ SweepReads \/ ExpiryReads \/ SweepEnds \/ Restart \/ Started \/ Crash
           \/ \E op \in {"retry", "resolve", "archive"}, j \in JobId : Decide(op, j)
    PROVE  Advances
<1>. USE TypeParts
<1>1. UNCHANGED <<rows, copies, chosen, reopened>>
  BY DEF SweepReads, ExpiryReads, SweepEnds, Restart, Started, Crash, Decide, history
<1>2. \A t \in Senders : sender'[t] = sender[t] \/ sender'[t] = Idle
  BY DEF SweepReads, ExpiryReads, SweepEnds, Restart, Started, Crash, Decide
<1>3. (\A i \in JobId : Kept(i)) /\ (\A t \in Senders : Proceeds(t))
  BY <1>1, <1>2, TableKept, StandsStill, SenderMoves
<1>4. /\ sweep'.pc = "expire" => sweep'.todo = {}
      /\ sweep'.pc \in {"reclaim", "recover"} =>
           \A found \in sweep'.todo : rows[found.job].state = "inflight"
  <2>1. CASE ExpiryReads
    <3>1. {j \in JobId : rows[j].state = "pending" /\ rows[j].overdue} = {}
      BY DEF NoneExpires, CalmInv
    <3>. QED BY <2>1, <3>1 DEF ExpiryReads
  <2>2. CASE SweepReads \/ Restart
    BY <2>2 DEF SweepReads, Restart, InflightRows
  <2>3. CASE SweepEnds \/ Started \/ Crash
    BY <2>3 DEF SweepEnds, Started, Crash, Asleep
  <2>4. CASE \E op \in {"retry", "resolve", "archive"}, j \in JobId : Decide(op, j)
    BY <2>4 DEF Decide, NoneExpires, Undisturbed, CalmInv
  <2>. QED BY <2>1, <2>2, <2>3, <2>4
<1>5. NoneExpires' /\ NoGaps' /\ TurnStays'
  BY <1>1, <1>3, <1>4, OrderKept
<1>. DEFINE Sound(d) ==
       /\ rows[d.job].state = d.seen
       /\ d.op = "resolve" => d.seen = "ambiguous"
       /\ \A s \in Handlers : sender'[s].pc = "archiving" => d.job # sender'[s].job
<1>6. \A d \in decisions' : Sound(d)
  <2>1. CASE decisions' = decisions \/ decisions' = {}
    BY <1>2, <2>1, SenderMoves DEF Undisturbed, CalmInv, Senders
  <2>2. ASSUME NEW op \in {"retry", "resolve", "archive"}, NEW j \in JobId, Decide(op, j)
        PROVE  \A d \in decisions' : Sound(d)
    <3>. DEFINE new == [op |-> op, job |-> j, seen |-> rows[j].state]
    <3>1. /\ decisions' = decisions \cup {new} /\ sender' = sender
          /\ \A s \in Handlers : sender[s].pc = "archiving" => sender[s].job # j
          /\ op = "resolve" => rows[j].state = "ambiguous"
      BY <2>2 DEF Decide, MayDecide, CanResolve, Unhurried, Safe
    <3>2. new.op = op /\ new.job = j /\ new.seen = rows[j].state
      OBVIOUS
    <3>. HIDE DEF new
    <3>. QED BY <3>1, <3>2 DEF Undisturbed, CalmInv
  <2>3. \/ decisions' = decisions \/ decisions' = {}
        \/ \E op \in {"retry", "resolve", "archive"}, j \in JobId : Decide(op, j)
    BY DEF SweepReads, ExpiryReads, SweepEnds, Restart, Started, Crash
  <2>. HIDE DEF Sound
  <2>. QED BY <2>1, <2>2, <2>3
<1>7. Undisturbed'
  <2>1. \A t \in Senders : Attempting(t)' => sender'[t] = sender[t] /\ Attempting(t)
    BY <1>2, SenderMoves DEF Attempting
  <2>2. \A t \in Handlers : sender'[t].pc = "archiving" => sender'[t] = sender[t]
    BY <1>2, SenderMoves DEF Senders
  <2>. QED BY <1>1, <1>4, <1>6, <2>1, <2>2 DEF Undisturbed, CalmInv
<1>8. DoneHasLanded'
  BY <1>1, <1>2, SenderMoves DEF DoneHasLanded, CalmInv, KindOf
<1>9. [Promise!Next]_(Promise!vars)
  BY <1>1, <1>3, PromiseRests
<1>. QED BY <1>5, <1>7, <1>8, <1>9 DEF Advances, CalmInv

\* submit, submit_in_order and the refusals: the rows of a new message, at the end
\* of the table and behind everything the others were told about.
LEMMA CalmNew ==
    ASSUME TypeOK, TypeOK', CalmInv, NEW s \in Handlers, NEW to, Goes(s, to),
           sender[s].pc = "idle",
           NEW j \in JobId, NEW m \in JobId, j <= m, NextId(j),
           \A i \in j..m : /\ rows'[i].state \in {"pending", "inflight"}
                           /\ rows'[i].last = m /\ ~rows'[i].overdue,
           \A i \in JobId \ j..m : rows'[i] = rows[i],
           UNCHANGED <<sweep, decisions, copies, chosen, reopened>>,
           to.job = j, to.pc \in {"ordering", "preparing", "settling"},
           to.pc # "ordering" => rows'[j].state = "inflight",
           to.pc = "preparing" => Barrier(rows'[j].kind) = "none",
           to.pc = "settling" => to.verdict # "done"
    PROVE  Advances
<1>. USE TypeParts
<1>. DEFINE New == j..m
<1>0. /\ \A i \in JobId : i \in Nat /\ i >= 1
      /\ New \subseteq JobId /\ j \in New /\ m \in New
      /\ \A i \in JobId : i \in New <=> j <= i /\ i <= m
  BY OutboxAssumption DEF JobId
<1>1. \A i \in JobId : rows[i].state = "absent" <=> i >= j
  BY DEF NextId
<1>2. /\ s \in Senders /\ s # Worker /\ sender'[s] = to
      /\ \A t \in Senders \ {s} : sender'[t] = sender[t]
      /\ \A t \in Senders \ {s} : Attempting(t)' = Attempting(t)
  BY MoveSender, OutboxAssumption DEF Senders, Attempting
<1>3. /\ \A i \in New : /\ rows'[i].state \in {"pending", "inflight"}
                        /\ rows'[i].last = m /\ ~rows'[i].overdue
      /\ \A i \in JobId \ New : rows'[i] = rows[i]
  OBVIOUS
<1>. HIDE DEF New
<1>4. \A t \in Senders : sender[t].pc # "idle" =>
        sender[t].job \in JobId \ New /\ sender[t].job < j
  BY <1>0, <1>1 DEF SenderOK, NoGaps, CalmInv
<1>5. NoneExpires'
  BY <1>3 DEF NoneExpires, CalmInv
<1>6. NoGaps'
  <2>1. \A i \in JobId : rows'[i].state = "absent" <=> i > m
    BY <1>0, <1>1, <1>3
  <2>2. \A i \in JobId : rows'[i].state = "absent" => rows'[i].kind = "none"
    BY <1>3 DEF NoGaps, CalmInv
  <2>3. \A i, l \in JobId : i < l /\ rows'[i].state = "absent" => rows'[l].state = "absent"
    BY <1>0, <2>1
  <2>4. \A i \in JobId : rows'[i].state # "absent" =>
          rows'[i].last \in JobId /\ rows'[rows'[i].last].state # "absent"
    <3>1. \A i \in New : rows'[i].last \in JobId /\ rows'[rows'[i].last].state # "absent"
      BY <1>0, <1>3
    <3>2. ASSUME NEW i \in JobId \ New, rows'[i].state # "absent"
          PROVE  rows'[i].last \in JobId /\ rows'[rows'[i].last].state # "absent"
      <4>1. rows[i].last \in JobId /\ rows[rows[i].last].state # "absent"
        BY <1>3, <3>2 DEF NoGaps, CalmInv
      <4>2. rows[i].last \notin New
        BY <1>0, <1>1, <4>1
      <4>. QED BY <1>3, <3>2, <4>1, <4>2
    <3>. QED BY <3>1, <3>2
  <2>5. \A t \in Senders : sender'[t].pc # "idle" => rows'[sender'[t].job].state # "absent"
    BY <1>0, <1>2, <1>3, <1>4 DEF NoGaps, CalmInv
  <2>. QED BY <2>2, <2>3, <2>4, <2>5 DEF NoGaps
<1>7. TurnStays'
  <2>. SUFFICES ASSUME NEW t \in Senders, sender'[t].pc \in Underway,
                       NEW i \in 1..(sender'[t].job - 1),
                       Ahead(i, t, sender[t].job)', Undelivered(rows'[i])
                PROVE  i \in reopened'
    BY DEF TurnStays, Foremost
  <2>1. CASE t = s
    <3>1. to.pc = "preparing" /\ sender'[t].job = j
      BY <1>2, <2>1 DEF Underway
    <3>2. Barrier(rows'[j].kind) # "direction" /\ rows'[j].kind # "tg_text"
      BY <3>1 DEF Barrier, MaxKinds
    <3>. QED BY <1>2, <2>1, <3>1, <3>2 DEF Ahead, KindOf
  <2>2. CASE t # s
    <3>1. sender'[t] = sender[t] /\ sender[t].job \in JobId \ New /\ sender[t].job < j
      BY <1>2, <1>4, <2>2 DEF Underway
    <3>2. i \in JobId \ New
      <4>1. i \in Nat /\ i >= 1 /\ i < sender[t].job
        BY <1>0, <3>1
      <4>2. i \in JobId
        BY <3>1, <4>1, OutboxAssumption DEF JobId
      <4>3. ~(j <= i)
        <5>1. j \in Nat /\ sender[t].job \in Nat
          BY <1>0, <3>1
        <5>. QED BY <3>1, <4>1, <5>1
      <4>. QED BY <1>0, <4>2, <4>3
    <3>3. rows'[i] = rows[i] /\ rows'[sender[t].job] = rows[sender[t].job]
      BY <1>3, <3>1, <3>2
    <3>4. Ahead(i, t, sender[t].job) /\ Undelivered(rows[i])
      BY <3>1, <3>3 DEF Ahead, KindOf
    <3>5. i \in reopened
      BY <3>1, <3>4 DEF TurnStays, Foremost, CalmInv
    <3>. QED BY <3>5
  <2>. QED BY <2>1, <2>2
<1>8. Undisturbed'
  <2>1. \A t \in Senders : Attempting(t)' => rows'[sender'[t].job].state = "inflight"
    BY <1>0, <1>2, <1>3, <1>4 DEF Undisturbed, CalmInv, Attempting
  <2>2. \A t \in Handlers : sender'[t].pc = "archiving" =>
          /\ rows'[sender'[t].job].state \in {"failed", "archived"}
          /\ \A d \in decisions : d.job # sender'[t].job
    BY <1>2, <1>3, <1>4 DEF Undisturbed, CalmInv, Senders
  <2>3. \A d \in decisions : d.job \in JobId /\ d.seen # "absent"
    BY DEF SweepOK, Decision
  <2>4. \A d \in decisions : /\ rows'[d.job].state = d.seen
                             /\ d.op = "resolve" => d.seen = "ambiguous"
    BY <1>0, <1>1, <1>3, <2>3 DEF Undisturbed, CalmInv
  <2>5. \A found \in sweep.todo : found.job \in JobId
    BY DEF SweepOK, Found
  <2>6. sweep.pc \in {"reclaim", "recover"} =>
          \A found \in sweep.todo : rows'[found.job].state = "inflight"
    BY <1>0, <1>1, <1>3, <2>5 DEF Undisturbed, CalmInv
  <2>. QED BY <2>1, <2>2, <2>4, <2>6 DEF Undisturbed
<1>9. DoneHasLanded'
  BY <1>2, <1>3, <1>4 DEF DoneHasLanded, CalmInv, KindOf
<1>10. Promise!Accept
  <2>1. \A i \in New : Standing[i] = "unknown"
    BY <1>0, <1>1, WaitingStates DEF Standing
  <2>2. Standing' = [i \in JobId |-> IF i \in New THEN "waiting" ELSE Standing[i]]
    BY <1>0, <1>3, WaitingStates DEF Standing
  <2>3. Making \subseteq Making' /\ Making' \subseteq Making \union New
    BY <1>0, <1>1, <1>3 DEF Making, KindOf
  <2>4. copies' = copies /\ Allowed' = Allowed
    BY DEF Allowed
  <2>5. New \in SUBSET JobId /\ New # {}
    BY <1>0
  <2>. QED BY <2>1, <2>2, <2>3, <2>4, <2>5 DEF Promise!Accept, Standing, Making, Allowed
<1>. QED BY <1>5, <1>6, <1>7, <1>8, <1>9, <1>10 DEF Advances, CalmInv, Promise!Next

\* A live event: a new job, the parts of a new text, a refusal, or an event that
\* comes again and finds its job.
LEMMA CalmEvent ==
    ASSUME TypeOK, TypeOK', CalmInv, NEW s \in Handlers,
           \/ \E k \in Kinds : SubmitAlone(s, k)
           \/ \E k \in Kinds, n \in 1..MaxParts : SubmitInOrder(s, k, n)
           \/ \E v \in {"permanent", "noop"} : SubmitRefusal(s, v)
           \/ \E j \in JobId : Replay(s, j)
    PROVE  Advances
<1>. USE TypeParts, OutboxAssumption
<1>0. /\ s \in Senders /\ \A j \in JobId : j \in Nat /\ j >= 1 /\ j \in 0..MaxJobs
      /\ \A j \in JobId : j..j = {j}
  BY DEF Senders, JobId
<1>1. ASSUME NEW k \in Kinds, SubmitAlone(s, k) PROVE Advances
  <2>1. PICK j \in JobId : /\ NextId(j) /\ Write(j, BornLeased(k, "full", j))
                           /\ Goes(s, Begin("preparing", j))
    BY <1>1 DEF SubmitAlone
  <2>. DEFINE to == Begin("preparing", j)
  <2>2. /\ UNCHANGED <<sweep, decisions, copies, chosen, reopened>>
        /\ sender[s].pc = "idle" /\ Barrier(k) = "none"
    BY <1>1 DEF SubmitAlone, history
  <2>3. /\ rows'[j].state = "inflight" /\ rows'[j].kind = k /\ rows'[j].last = j
        /\ \A i \in JobId \ {j} : rows'[i] = rows[i]
    <3>1. NewJob(BornLeased(k, "full", j), "inflight", k, j)
      BY <1>0, NewRows
    <3>. QED BY <2>1, <3>1, WriteRow DEF NewJob
  <2>4. ~rows'[j].overdue
    <3>1. ~BornLeased(k, "full", j).overdue
      BY DEF BornLeased, NoRow
    <3>. QED BY <2>1, <3>1, WriteRow
  <2>5. to.pc = "preparing" /\ to.job = j
    BY <1>0, SenderMoves DEF Places
  <2>6. Goes(s, to)
    BY <2>1
  <2>. HIDE DEF to
  <2>. QED BY <1>0, <2>1, <2>2, <2>3, <2>4, <2>5, <2>6, CalmNew
<1>2. ASSUME NEW k \in Kinds, NEW n \in 1..MaxParts, SubmitInOrder(s, k, n) PROVE Advances
  <2>1. PICK j \in JobId :
          /\ NextId(j) /\ j + n - 1 \in JobId
          /\ rows' = [i \in JobId |-> IF i \in j..(j + n - 1)
                                      THEN Enqueued(k, j + n - 1) ELSE rows[i]]
          /\ Goes(s, Begin("ordering", j))
    BY <1>2 DEF SubmitInOrder
  <2>. DEFINE m == j + n - 1
              to == Begin("ordering", j)
  <2>2. UNCHANGED <<sweep, decisions, copies, chosen, reopened>> /\ sender[s].pc = "idle"
    BY <1>2 DEF SubmitInOrder, history
  <2>3. /\ Enqueued(k, m).state = "pending" /\ Enqueued(k, m).kind = k
        /\ Enqueued(k, m).last = m /\ ~Enqueued(k, m).overdue
    BY DEF Enqueued, NoRow
  <2>4. to.pc = "ordering" /\ to.job = j
    BY <1>0, SenderMoves DEF Places
  <2>5. m \in JobId /\ j <= m
    BY <1>0, <2>1
  <2>6. /\ rows' = [i \in JobId |-> IF i \in j..m THEN Enqueued(k, m) ELSE rows[i]]
        /\ Goes(s, to)
    BY <2>1
  <2>. HIDE DEF m, to
  <2>7. /\ \A i \in j..m : /\ rows'[i].state \in {"pending", "inflight"}
                           /\ rows'[i].last = m /\ ~rows'[i].overdue
        /\ \A i \in JobId \ j..m : rows'[i] = rows[i]
    <3>1. j..m \subseteq JobId
      BY <1>0, <2>5 DEF JobId
    <3>. QED BY <2>3, <2>6, <3>1
  <2>. QED BY <2>1, <2>2, <2>4, <2>5, <2>6, <2>7, CalmNew
<1>3. ASSUME NEW v \in {"permanent", "noop"}, SubmitRefusal(s, v) PROVE Advances
  <2>1. PICK j \in JobId : /\ NextId(j) /\ Write(j, BornLeased("max_send", "stub", j))
                           /\ Goes(s, Ended(Begin("settling", j), v))
    BY <1>3 DEF SubmitRefusal
  <2>. DEFINE to == Ended(Begin("settling", j), v)
  <2>2. UNCHANGED <<sweep, decisions, copies, chosen, reopened>> /\ sender[s].pc = "idle"
    BY <1>3 DEF SubmitRefusal, history
  <2>3. /\ rows'[j].state = "inflight" /\ rows'[j].last = j
        /\ \A i \in JobId \ {j} : rows'[i] = rows[i]
    <3>1. NewJob(BornLeased("max_send", "stub", j), "inflight", "max_send", j)
      BY <1>0, NewRows DEF AllKinds, MaxKinds
    <3>. QED BY <2>1, <3>1, WriteRow DEF NewJob
  <2>4. ~rows'[j].overdue
    <3>1. ~BornLeased("max_send", "stub", j).overdue
      BY DEF BornLeased, NoRow
    <3>. QED BY <2>1, <3>1, WriteRow
  <2>5. to.pc = "settling" /\ to.job = j /\ to.verdict # "done"
    <3>1. Begin("settling", j) \in Sender /\ Begin("settling", j).job = j
      BY <1>0, SenderMoves DEF Places
    <3>. QED BY <3>1, SenderMoves DEF Verdicts
  <2>6. Goes(s, to)
    BY <2>1
  <2>. HIDE DEF to
  <2>. QED BY <1>0, <2>1, <2>2, <2>3, <2>4, <2>5, <2>6, CalmNew
<1>4. ASSUME NEW j \in JobId, Replay(s, j) PROVE Advances
  <2>1. PICK pc \in {"claiming", "ordering"} :
          Goes(s, Begin(pc, j)) /\ (pc = "claiming" => Barrier(KindOf(j)) = "none")
    BY <1>4 DEF Replay
  <2>. DEFINE to == Begin(pc, j)
  <2>2. /\ UNCHANGED <<rows, sweep, decisions, copies, chosen, reopened>>
        /\ KindOf(j) \in TgKinds
    BY <1>4 DEF Replay
  <2>3. to.pc = pc /\ to.job = j /\ sender'[s] = to
    BY <1>0, <2>1, SenderMoves, MoveSender DEF Places
  <2>4. rows[j].state # "absent"
    BY <2>2 DEF NoGaps, CalmInv, KindOf, TgKinds
  <2>5. pc = "claiming" => Foremost(s, j)
    <3>1. pc = "claiming" => Barrier(KindOf(j)) # "direction" /\ KindOf(j) # "tg_text"
      BY <2>1 DEF Barrier, MaxKinds
    <3>. QED BY <3>1 DEF Foremost, Ahead
  <2>6. Proceeds(s)
    BY <2>3, <2>4, <2>5 DEF Proceeds, Underway
  <2>7. ~Attempting(s)'
    BY <2>3 DEF Attempting
  <2>8. Goes(s, to)
    BY <2>1
  <2>. HIDE DEF to
  <2>. QED BY <1>0, <2>2, <2>3, <2>6, <2>7, <2>8, CalmMove
<1>. QED BY <1>1, <1>2, <1>3, <1>4

\* A sender between two statements, and one that claims.
LEMMA CalmSender ==
    ASSUME TypeOK, TypeOK', Facts, Safe, CalmInv, NEW s \in Senders,
           \/ s \in Handlers /\ (CheckOrder(s) \/ ClaimForAttempt(s))
           \/ s = Worker /\ (ClaimDue \/ CheckTurn)
           \/ EndUnannounced(s) \/ RequestFails(s) \/ Dies(s)
    PROVE  Advances
<1>. USE TypeParts, OutboxAssumption
<1>1. /\ sender[s] \in Sender /\ Idle.pc = "idle"
      /\ sender[s].pc # "idle" => sender[s].job \in JobId /\ rows[sender[s].job].state # "absent"
  BY SenderTyped, SenderMoves DEF NoGaps, CalmInv
<1>2. CASE s \in Handlers /\ CheckOrder(s)
  <2>. DEFINE j == sender[s].job
  <2>1. /\ UNCHANGED <<rows, sweep, decisions, copies, chosen, reopened>>
        /\ sender[s].pc = "ordering" /\ s # Worker
    BY <1>2 DEF CheckOrder, history
  <2>2. PICK to \in {Idle, At(sender[s], "claiming")} :
          Goes(s, to) /\ (Barred(j) => to = Idle)
    BY <1>2 DEF CheckOrder
  <2>3. /\ to.pc \in {"idle", "claiming"} /\ sender'[s] = to
        /\ to.pc = "claiming" => to.job = j /\ ~Barred(j)
    BY <1>1, <2>2, SenderMoves, MoveSender DEF Places
  <2>4. ~Barred(j) => Foremost(s, j)
    BY <2>1 DEF Barred, OlderUndelivered, OlderUndeliveredKind, Foremost, Ahead, Barrier, MaxKinds
  <2>5. to.pc # "idle" => Proceeds(s)
    BY <1>1, <2>1, <2>3, <2>4 DEF Proceeds
  <2>6. ~Attempting(s)'
    BY <2>3 DEF Attempting
  <2>. QED BY <2>1, <2>2, <2>3, <2>5, <2>6, CalmMove
<1>3. CASE s \in Handlers /\ ClaimForAttempt(s)
  <2>. DEFINE j == sender[s].job
  <2>1. /\ UNCHANGED <<sweep, decisions, copies, chosen, reopened>>
        /\ sender[s].pc = "claiming" /\ ~Attempting(s) /\ j \in JobId
    BY <1>1, <1>3 DEF ClaimForAttempt, history, Attempting
  <2>2. CASE /\ Takeable(rows[j]) /\ Write(j, Leased(rows[j]))
             /\ Goes(s, At(sender[s], "preparing"))
    <3>. DEFINE to == At(sender[s], "preparing")
    <3>1. rows[j].state = "pending"
      BY <2>1, <2>2 DEF Takeable, LapsedRows, Facts
    <3>2. to.pc = "preparing" /\ to.job = j
      BY <1>1, SenderMoves DEF Places
    <3>3. Foremost(s, j)
      BY <2>1 DEF TurnStays, CalmInv, Underway
    <3>4. Goes(s, to)
      BY <2>2
    <3>. HIDE DEF to, j
    <3>. QED BY <2>1, <2>2, <3>1, <3>2, <3>3, <3>4, CalmClaim
  <2>3. CASE Goes(s, Idle) /\ UNCHANGED rows
    <3>1. ~Attempting(s)'
      BY <1>1, <2>3, MoveSender DEF Attempting
    <3>. QED BY <1>1, <2>1, <2>3, <3>1, CalmMove
  <2>. QED BY <1>3, <2>2, <2>3 DEF ClaimForAttempt
<1>4. CASE s = Worker /\ ClaimDue
  <2>1. PICK j \in JobId : /\ rows[j].state = "pending"
                           /\ Write(j, Leased(rows[j])) /\ Goes(s, Claimed(j))
    BY <1>4 DEF ClaimDue
  <2>2. UNCHANGED <<sweep, decisions, copies, chosen, reopened>> /\ ~Attempting(s)
    BY <1>4 DEF ClaimDue, history, Attempting
  <2>3. Claimed(j).pc = "checking" /\ Claimed(j).job = j
    BY ClaimedMove
  <2>. QED BY <2>1, <2>2, <2>3, CalmClaim
<1>5. CASE s = Worker /\ CheckTurn
  <2>. DEFINE j == sender[s].job
  <2>1. /\ UNCHANGED <<rows, sweep, decisions, copies, chosen, reopened>>
        /\ sender[s].pc = "checking" /\ Attempting(s)
    BY <1>5 DEF CheckTurn, history, Attempting
  <2>2. PICK to \in {Ended(sender[s], "defer"), At(sender[s], "preparing")} :
          Goes(s, to) /\ (OlderUndelivered(j) => to = Ended(sender[s], "defer"))
    BY <1>5 DEF CheckTurn
  <2>3. /\ to.pc \in {"settling", "preparing"} /\ to.job = j /\ sender'[s] = to
        /\ to.pc = "settling" => to.verdict = "defer"
        /\ to.pc = "preparing" => ~OlderUndelivered(j)
    <3>1. /\ Ended(sender[s], "defer").pc = "settling" /\ Ended(sender[s], "defer").job = j
          /\ Ended(sender[s], "defer").verdict = "defer"
          /\ At(sender[s], "preparing").pc = "preparing" /\ At(sender[s], "preparing").job = j
      BY <1>1, SenderMoves DEF Places, Verdicts
    <3>. QED BY <2>2, <3>1, MoveSender
  <2>4. ~OlderUndelivered(j) => Foremost(s, j)
    BY <1>5 DEF OlderUndelivered, Foremost, Ahead
  <2>5. Proceeds(s)
    BY <1>1, <2>1, <2>3, <2>4 DEF Proceeds, Underway
  <2>. QED BY <2>1, <2>2, <2>3, <2>5, CalmMove
<1>6. CASE EndUnannounced(s) \/ RequestFails(s)
  <2>. DEFINE j == sender[s].job
  <2>1. PICK v \in Verdicts : /\ Goes(s, Ended(sender[s], v))
                              /\ v = "done" => ~Creating(KindOf(j))
    BY <1>6 DEF EndUnannounced, RequestFails, Conclude, Verdicts
  <2>2. /\ UNCHANGED <<rows, sweep, decisions, copies, chosen, reopened>>
        /\ sender[s].pc \in {"preparing", "requesting"} /\ Attempting(s)
    BY <1>6 DEF EndUnannounced, RequestFails, Attempting
  <2>. DEFINE to == Ended(sender[s], v)
  <2>3. to.pc = "settling" /\ to.job = j /\ to.verdict = v /\ sender'[s] = to
    BY <1>1, <2>1, SenderMoves, MoveSender
  <2>4. Proceeds(s)
    BY <1>1, <2>2, <2>3 DEF Proceeds, Underway
  <2>5. Goes(s, to)
    BY <2>1
  <2>. HIDE DEF to
  <2>. QED BY <2>1, <2>2, <2>3, <2>4, <2>5, CalmMove
<1>7. CASE Dies(s)
  <2>1. UNCHANGED <<rows, sweep, decisions, copies, chosen, reopened>> /\ Goes(s, Idle)
    BY <1>7 DEF Dies
  <2>2. ~Attempting(s)'
    BY <1>1, <2>1, MoveSender DEF Attempting
  <2>. QED BY <1>1, <2>1, <2>2, CalmMove
<1>. QED BY <1>2, <1>3, <1>4, <1>5, <1>6, <1>7

\* Every step of the queue without a TTL is a step of the promise, or none.
LEMMA CalmStep ==
    Unhurried /\ IInv /\ CalmInv /\ [Next]_vars => Advances
<1>. SUFFICES ASSUME Unhurried, TypeOK, Facts, CalmInv, [Next]_vars PROVE Advances
  BY InvariantParts
<1>1. TypeOK' /\ Safe
  BY TypeStep DEF Unhurried
<1>2. CASE \E s \in Handlers : \/ Submit(s)
                               \/ \E v \in {"permanent", "noop"} : SubmitRefusal(s, v)
                               \/ \E j \in JobId : Replay(s, j)
  BY <1>1, <1>2, CalmEvent DEF Submit
<1>3. ASSUME NEW s \in Handlers, HandlerSteps(s) PROVE Advances
  <2>1. s \in Senders
    BY DEF Senders
  <2>. QED BY <1>1, <1>3, <2>1, CalmSender, CalmAnnounce, CalmLands, CalmSettle, CalmNoop
           DEF HandlerSteps, Attempt
<1>4. CASE WorkerSteps
  <2>1. Worker \in Senders
    BY DEF Senders
  <2>. QED BY <1>1, <1>4, <2>1, CalmSender, CalmAnnounce, CalmLands, CalmSettle
           DEF WorkerSteps, Attempt
<1>5. CASE Sweeper \/ Restart \/ Started
  <2>1. ASSUME NEW found \in sweep.todo, ExpireOne(found) PROVE FALSE
    BY <2>1 DEF ExpireOne, NoneExpires, CalmInv
  <2>. QED BY <1>1, <1>5, <2>1, CalmReads, CalmRecover DEF Sweeper
<1>6. CASE Owner
  BY <1>1, <1>6, CalmReads, CalmApply, CalmWithdraw DEF Owner
<1>7. CASE Time
  BY <1>1, <1>7, CalmTime DEF Time
<1>8. CASE (\E s \in Senders : Dies(s)) \/ Crash
  BY <1>1, <1>8, CalmSender, CalmReads
<1>9. CASE UNCHANGED vars
  <2>1. UNCHANGED <<rows, sender, sweep, decisions, up, copies, chosen, reopened>>
    BY <1>9 DEF vars, history
  <2>2. CalmInv'
    BY <2>1 DEF CalmInv, NoneExpires, Undisturbed, DoneHasLanded, NoGaps, TurnStays, Foremost,
                Ahead, KindOf, Attempting
  <2>3. [Promise!Next]_(Promise!vars)
    BY <2>1, TableKept, PromiseRests
  <2>. QED BY <2>2, <2>3 DEF Advances
<1>. QED BY <1>2, <1>3, <1>4, <1>5, <1>6, <1>7, <1>8, <1>9 DEF Next

\* The invariant of the queue without a TTL.
LEMMA AlwaysCalm == Unhurried => (Spec => [](IInv /\ CalmInv))
<1>. SUFFICES ASSUME Unhurried PROVE Spec => [](IInv /\ CalmInv)
  OBVIOUS
<1>1. IInv /\ CalmInv /\ [Next]_vars => (IInv /\ CalmInv)'
  BY InvariantStep, CalmStep DEF Unhurried, Advances
<1>. QED BY InvariantInit, CalmInit, <1>1, PTL DEF Spec

\* Whoever asked for its turn (older_undelivered) keeps it until it has sent: no
\* job ordered by direction leaves before an older one of its direction.
THEOREM KeepsOrder == Unhurried => (Spec => []InTurn)
<1>1. CalmInv => InTurn
  BY DEF CalmInv, TurnStays, Underway, Foremost, Ahead, InTurn
<1>. QED BY AlwaysCalm, <1>1, PTL

\* The parts of long texts, and texts among themselves, leave in order on the
\* inline path (older_undelivered_kind, enqueue_batch).
THEOREM KeepsTextOrder == Unhurried => (Spec => []TextInTurn)
<1>1. CalmInv => TextInTurn
  <2>1. \A s \in Handlers : s \in Senders /\ s # Worker
    BY OutboxAssumption DEF Senders
  <2>. QED BY <2>1 DEF CalmInv, TurnStays, Underway, Foremost, Ahead, TextInTurn
<1>. QED BY AlwaysCalm, <1>1, PTL

\* The queue implements its promise: leases, attempts, recovery, sweeps and the
\* owner's commands are, seen from outside, what DeliveryPromise allows.
THEOREM ImplementsPromise == Unhurried => (Spec => KeepsPromise)
<1>. SUFFICES ASSUME Unhurried PROVE Spec => KeepsPromise
  OBVIOUS
<1>1. Init => Promise!Init
  BY CalmInit
<1>2. IInv /\ CalmInv /\ [Next]_vars => [Promise!Next]_(Promise!vars)
  BY CalmStep DEF Advances
<1>. QED BY AlwaysCalm, <1>1, <1>2, PTL DEF Spec, KeepsPromise, Promise!Spec
=============================================================================
