---------------------------- MODULE OwnerUpdates ----------------------------
(***************************************************************************)
(* What the owner's session reports of messages already in a chat: edits,  *)
(* reactions and deletions (routing/owner_updates.py), written down in     *)
(* owner_update_inbox before anything is derived from them.                *)
(*                                                                         *)
(* Updates are numbered by their pts.  Telethon runs a handler for each,   *)
(* all at once and in any order; a drain takes up what was left.  Under    *)
(* the message's lock a handler compares the update with the version       *)
(* stored, hands what changed to the delivery queue, tries it at once and  *)
(* moves the version.  The queue's worker is not under that lock.          *)
(***************************************************************************)
EXTENDS KeyedLock

CONSTANTS
    LastPts,       \* the updates 1..LastPts
    Update,     \* [Updates -> [message, family, text, reaction]]
    Baseline,   \* the projection every message had when it was placed
    MaxKept,    \* bound: updates written down; Telegram may lose any of the others
    MaxFaults   \* bound: crashes, exceptions, failed requests, redeliveries

Updates == 1..LastPts
Messages == Keys
Drain == 0            \* the task of drain(); the others are the live handlers

ASSUME OwnerUpdatesAssumption ==
    /\ {LastPts, MaxKept, MaxFaults} \subseteq Nat /\ Tasks = 0..LastPts
    /\ \A u \in Updates : /\ Update[u].message \in Keys
                          /\ Update[u].family \in {"snapshot", "delete"}

VARIABLES
    version,   \* owner_message_state: [known, pts]; the projection is that of pts
    row,       \* owner_update_inbox
    task,      \* handlers and the drain
    batch,     \* what the drain has claimed and not begun
    job,       \* the delivery queue: one job per effect of an update
    worker,    \* the worker: pc and the job in hand
    shown,     \* MAX: the update whose text and the one whose reaction it shows
    faults,    \* how much of MaxFaults is used
    first,     \* history: the update a message was first seen at, 0 for its baseline
    torn,      \* history: messages an update of which was given up with an effect kept
    left       \* history: messages an effect on which was left to the worker

durable == <<version, row, job, shown>>
history == <<first, torn, left>>
vars == <<lockVars, durable, task, batch, worker, faults, history>>

-----------------------------------------------------------------------------
(* State *)

Kinds == {"edit", "reaction", "delete"}
Effects == Kinds \X Updates
NoJob == <<"none", 0>>

NoRow == [state |-> "none", due |-> FALSE, lapsed |-> FALSE]
BadOpen(due) == [state |-> "open", due |-> due, lapsed |-> TRUE]
Open(due) == [state |-> "open", due |-> due, lapsed |-> FALSE]
Row == [state : {"open"}, due : BOOLEAN, lapsed : {FALSE}]
       \cup [state : {"claimed"}, due : {FALSE}, lapsed : BOOLEAN]
       \cup [state : {"none", "accounted", "dropped"}, due : {FALSE}, lapsed : {FALSE}]

\* todo: the effects still to be derived, in their order.
IdleTask == [pc |-> "idle", on |-> 0, todo |-> << >>]

Of(u) == Update[u].message
Projection(u) == IF u = 0 THEN Baseline ELSE Update[u]
Text(u) == Projection(u).text
Reaction(u) == Projection(u).reaction

Init ==
    /\ LocksInit
    /\ version = [m \in Messages |-> [known |-> FALSE, pts |-> 0]]
    /\ row = [u \in Updates |-> NoRow]
    /\ task = [t \in Tasks |-> IdleTask] /\ batch = {}
    /\ job = [e \in Effects |-> "none"]
    /\ worker = [pc |-> "idle", job |-> NoJob]
    /\ shown = [m \in Messages |-> [text |-> 0, reaction |-> 0, deleted |-> FALSE]]
    /\ faults = 0
    /\ first = [m \in Messages |-> 0] /\ torn = {} /\ left = {}

Fault == faults < MaxFaults /\ faults' = faults + 1

Goes(t, pc) == task' = [task EXCEPT ![t].pc = pc]
Turns(t, pc) == task' = [task EXCEPT ![t].pc = pc, ![t].todo = Tail(@)]
Ends(t) == task' = [task EXCEPT ![t] = IdleTask]
InHand(t) == <<Head(task[t].todo), task[t].on>>

-----------------------------------------------------------------------------
(* Writing down *)

\* seed, under the lock and never over a version: note_new_message and the bootstrap.
SeedBaseline(m) ==
    /\ ~version[m].known
    /\ \A o \in Objects : locks[m] = o => holder[o] = Nobody
    /\ version' = [version EXCEPT ![m].known = TRUE]
    /\ UNCHANGED <<lockVars, row, task, batch, job, worker, shown, faults, history>>

Begin(t, u) ==
    task' = [task EXCEPT ![t] =
        IF Update[u].family = "delete"
        THEN [pc |-> "deriving", on |-> u, todo |-> <<"delete">>]
        ELSE [pc |-> "entering", on |-> u, todo |-> << >>]]

\* on_owner_update, on_owner_delete: remember first; a row that is there already stays.
Remember(u) ==
    /\ task[u].pc = "idle"
    /\ \/ /\ row[u].state = "none" /\ UNCHANGED faults
          /\ Cardinality({v \in Updates : row[v].state # "none"}) < MaxKept
       \/ row[u].state # "none" /\ Fault
    /\ row' = [row EXCEPT ![u] = IF @.state \in {"none", "dropped"} THEN Open(TRUE) ELSE @]
    /\ Begin(u, u)
    /\ UNCHANGED <<lockVars, version, batch, job, worker, shown, history>>

\* claim_due: in one transaction, open rows that are due and leases that ran out.
BadClaimable == {u \in Updates : row[u].state = "open" /\ row[u].due}
Claimable == {u \in Updates : \/ row[u].state = "open" /\ row[u].due
                              \/ row[u].state = "claimed" /\ row[u].lapsed}
ClaimDue ==
    /\ task[Drain].pc = "idle" /\ batch = {} /\ Claimable # {}
    /\ batch' = Claimable
    /\ row' = [u \in Updates |-> IF u \in Claimable
                                 THEN [state |-> "claimed", due |-> FALSE, lapsed |-> FALSE]
                                 ELSE row[u]]
    /\ UNCHANGED <<lockVars, version, task, job, worker, shown, faults, history>>

\* The drain's next one.  next_attempt_at orders a batch, so any order may come of it.
DrainNext(u) ==
    /\ task[Drain].pc = "idle" /\ u \in batch
    /\ batch' = batch \ {u}
    /\ Begin(Drain, u)
    /\ UNCHANGED <<lockVars, durable, worker, faults, history>>

-----------------------------------------------------------------------------
(* Deriving *)

\* _apply: ask for the message's lock, and wait for it.
AskForLock(t) ==
    /\ task[t].pc = "entering"
    /\ Enter(t, Of(task[t].on))
    /\ Goes(t, "locked")
    /\ UNCHANGED <<durable, batch, worker, faults, history>>

LockGranted(t) ==
    /\ Granted(t)
    /\ UNCHANGED <<durable, task, batch, worker, faults, history>>

\* What a version that is known and older makes of an update; the edit goes first.
BadChanges(u, v) ==
    IF Text(u) # Text(v) THEN <<"edit">>
    ELSE IF Reaction(u) # Reaction(v) THEN <<"reaction">> ELSE << >>
Changes(u, v) ==
    (IF Text(u) # Text(v) THEN <<"edit">> ELSE << >>)
    \o (IF Reaction(u) # Reaction(v) THEN <<"reaction">> ELSE << >>)

\* _read_decide_and_commit: a stale update derives nothing, nor does a first sight.
Derived(u, v) == IF v.known THEN Changes(u, v.pts) ELSE << >>

ReadState(t) ==
    /\ task[t].pc = "locked" /\ Holds(t)
    /\ LET u == task[t].on
           v == version[Of(u)] IN
       \/ /\ v.known /\ u <= v.pts
          /\ Leave(t) /\ Goes(t, "accounting")
       \/ /\ ~v.known \/ u > v.pts
          /\ task' = [task EXCEPT ![t].pc = "deriving", ![t].todo = Derived(u, v)]
          /\ UNCHANGED lockVars
    /\ UNCHANGED <<durable, batch, worker, faults, history>>

\* _enqueue_mutation: submit.  Who finds the job there is done with it.
Submit(t) ==
    /\ task[t].pc = "deriving" /\ task[t].todo # << >>
    /\ IF job[InHand(t)] = "none"
       THEN job' = [job EXCEPT ![InHand(t)] = "pending"] /\ Goes(t, "attempting")
       ELSE Turns(t, "deriving") /\ UNCHANGED job
    /\ UNCHANGED <<lockVars, version, row, batch, worker, shown, faults, history>>

\* A deletion accepted for the message (resolve_edit), a newer version (resolve_reaction).
Overtaken(e) ==
    CASE e[1] = "edit" -> \E u \in Updates : Of(u) = Of(e[2]) /\ job[<<"delete", u>>] # "none"
      [] e[1] = "reaction" -> version[Of(e[2])].pts > e[2]
      [] OTHER -> FALSE

\* pipe.attempt claims the job unless the worker has it, and resolves it.
Attempt(t) ==
    /\ task[t].pc = "attempting"
    /\ \/ /\ job[InHand(t)] # "pending"
          /\ Turns(t, "deriving") /\ UNCHANGED job
       \/ /\ job[InHand(t)] = "pending" /\ ~Overtaken(InHand(t))
          /\ job' = [job EXCEPT ![InHand(t)] = "inflight"] /\ Goes(t, "requesting")
       \/ /\ job[InHand(t)] = "pending" /\ Overtaken(InHand(t))
          /\ job' = [job EXCEPT ![InHand(t)] = "done"] /\ Turns(t, "deriving")
    /\ UNCHANGED <<lockVars, version, row, batch, worker, shown, faults, history>>

\* What a request that reaches MAX leaves there; a deleted message refuses the others.
Applied(e) ==
    [shown EXCEPT ![Of(e[2])] =
        IF @.deleted THEN @
        ELSE CASE e[1] = "delete" -> [@ EXCEPT !.deleted = TRUE]
               [] e[1] = "edit" -> [@ EXCEPT !.text = e[2]]
               [] OTHER -> [@ EXCEPT !.reaction = e[2]]]

\* The request lands and the job is settled, or it fails, with an answer lost or not,
\* and the job waits for the worker.
Requested(e) ==
    \/ /\ shown' = Applied(e) /\ job' = [job EXCEPT ![e] = "done"]
       /\ UNCHANGED <<faults, left>>
    \/ /\ Fault /\ shown' \in {shown, Applied(e)}
       /\ job' = [job EXCEPT ![e] = "pending"] /\ left' = left \cup {Of(e[2])}

Request(t) ==
    /\ task[t].pc = "requesting"
    /\ Requested(InHand(t))
    /\ Turns(t, "deriving")
    /\ UNCHANGED <<lockVars, version, row, batch, worker, first, torn>>

\* advance: compare and set.
Advanced(v, u) == IF v.known /\ u <= v.pts THEN v ELSE [known |-> TRUE, pts |-> u]
Advance(t) ==
    /\ task[t].pc = "deriving" /\ task[t].todo = << >>
    /\ LET u == task[t].on IN
       \/ /\ Update[u].family = "delete" /\ UNCHANGED <<lockVars, version, first>>
       \/ /\ Update[u].family = "snapshot" /\ Leave(t)
          /\ version' = [version EXCEPT ![Of(u)] = Advanced(@, u)]
          /\ first' = [first EXCEPT ![Of(u)] = IF version[Of(u)].known THEN @ ELSE u]
    /\ Goes(t, "accounting")
    /\ UNCHANGED <<row, batch, job, worker, shown, faults, torn, left>>

-----------------------------------------------------------------------------
(* Finishing a row *)

\* account marks the row and then deletes it.
Account(t) ==
    /\ task[t].pc = "accounting"
    /\ row' = [row EXCEPT ![task[t].on] =
                 IF @.state \in {"none", "dropped"} THEN @
                 ELSE [NoRow EXCEPT !.state = "accounted"]]
    /\ Goes(t, "dropping")
    /\ UNCHANGED <<lockVars, version, batch, job, worker, shown, faults, history>>

Drop(t) ==
    /\ task[t].pc = "dropping"
    /\ row' = [row EXCEPT ![task[t].on] =
                 IF @.state = "accounted" THEN [NoRow EXCEPT !.state = "dropped"] ELSE @]
    /\ Ends(t)
    /\ UNCHANGED <<lockVars, version, batch, job, worker, shown, faults, history>>

\* What the history keeps of the tasks of S that end before their version moved.
Tears(S) ==
    LET cut == {u \in {task[t].on : t \in S} \ {0} :
                  /\ Update[u].family = "snapshot" /\ version[Of(u)].pts < u
                  /\ \E k \in Kinds : job[<<k, u>>] # "none"} IN
    torn' = torn \cup {Of(u) : u \in cut}

\* reopen.
BadReopened(r) == [NoRow EXCEPT !.state = "accounted"]
Reopened(r) == IF r.state \in {"open", "claimed"} THEN Open(FALSE) ELSE r

\* A statement raises: out of the lock, the row open again after a wait, unless that
\* fails too.  A drain ends with the rest of its batch claimed.
Raises(t) ==
    /\ task[t].pc \in {"locked", "deriving"} /\ Fault
    /\ \/ Holds(t) /\ Leave(t)
       \/ Outside(t) /\ UNCHANGED lockVars
    /\ \/ row' = [row EXCEPT ![task[t].on] = Reopened(@)]
       \/ UNCHANGED row
    /\ Tears({t}) /\ Ends(t)
    /\ batch' = IF t = Drain THEN {} ELSE batch
    /\ UNCHANGED <<version, job, worker, shown, first, left>>

BecomesDue(u) ==
    /\ row[u].state = "open" /\ ~row[u].due
    /\ row' = [row EXCEPT ![u].due = TRUE]
    /\ UNCHANGED <<lockVars, version, task, batch, job, worker, shown, faults, history>>

LeaseLapses(u) ==
    /\ row[u].state = "claimed" /\ ~row[u].lapsed
    /\ row' = [row EXCEPT ![u].lapsed = TRUE]
    /\ UNCHANGED <<lockVars, version, task, batch, job, worker, shown, faults, history>>

-----------------------------------------------------------------------------
(* The worker, and the end of a process *)

\* The worker's claim; its order check only puts a job off (Outbox models it).
WorkerClaims(e) ==
    /\ worker.pc = "idle" /\ job[e] = "pending"
    /\ job' = [job EXCEPT ![e] = "inflight"] /\ left' = left \cup {Of(e[2])}
    /\ worker' = [pc |-> "resolving", job |-> e]
    /\ UNCHANGED <<lockVars, version, row, task, batch, shown, faults, first, torn>>

WorkerResolves ==
    /\ worker.pc = "resolving"
    /\ IF Overtaken(worker.job)
       THEN /\ job' = [job EXCEPT ![worker.job] = "done"]
            /\ worker' = [pc |-> "idle", job |-> NoJob]
       ELSE worker' = [worker EXCEPT !.pc = "requesting"] /\ UNCHANGED job
    /\ UNCHANGED <<lockVars, version, row, task, batch, shown, faults, history>>

WorkerRequests ==
    /\ worker.pc = "requesting"
    /\ Requested(worker.job)
    /\ worker' = [pc |-> "idle", job |-> NoJob]
    /\ UNCHANGED <<lockVars, version, row, task, batch, first, torn>>

\* What was in memory is gone, a request under way may have landed, and requeue_inflight
\* gives every job back: a mutation may be repeated.
UnderWay == {InHand(t) : t \in {t \in Tasks : task[t].pc = "requesting"}}
            \cup (IF worker.pc = "requesting" THEN {worker.job} ELSE {})
Crash ==
    /\ Fault
    /\ locks' = [k \in Keys |-> Nobody] /\ users' = [o \in Objects |-> {}]
    /\ holder' = [o \in Objects |-> Nobody] /\ queue' = [o \in Objects |-> << >>]
    /\ asked' = [t \in Tasks |-> Nobody]
    /\ Tears(Tasks)
    /\ task' = [t \in Tasks |-> IdleTask] /\ batch' = {}
    /\ worker' = [pc |-> "idle", job |-> NoJob]
    /\ shown' \in {shown} \cup {Applied(e) : e \in UnderWay}
    /\ job' = [e \in Effects |-> IF job[e] = "inflight" THEN "pending" ELSE job[e]]
    /\ left' = left \cup {Of(e[2]) : e \in {e \in Effects : job[e] \in {"pending", "inflight"}}}
    /\ UNCHANGED <<version, row, first>>

-----------------------------------------------------------------------------
Steps(t) == \/ AskForLock(t) \/ LockGranted(t) \/ ReadState(t) \/ Submit(t) \/ Attempt(t)
            \/ Request(t) \/ Advance(t) \/ Account(t) \/ Drop(t)
Draining == ClaimDue \/ \E u \in Updates : DrainNext(u)
Working == WorkerResolves \/ WorkerRequests \/ \E e \in Effects : WorkerClaims(e)
Time(u) == BecomesDue(u) \/ LeaseLapses(u)

Next == \/ \E m \in Messages : SeedBaseline(m)
        \/ \E u \in Updates : Remember(u) \/ Time(u)
        \/ \E t \in Tasks : Steps(t) \/ Raises(t)
        \/ Draining \/ Working \/ Crash

Spec == Init /\ [][Next]_vars

\* Tasks run, requests end, the owner session's loop drains, and time passes.
Fairness == /\ WF_vars(\E t \in Tasks : Steps(t)) /\ WF_vars(Draining)
            /\ WF_vars(Working) /\ WF_vars(\E u \in Updates : Time(u))

FairSpec == Spec /\ Fairness

-----------------------------------------------------------------------------
(* Properties *)

\* Every variable keeps its type.
TypeOK ==
    /\ version \in [Messages -> [known : BOOLEAN, pts : 0..LastPts]]
    /\ row \in [Updates -> Row]
    /\ \A t \in Tasks : task[t].on \in 0..LastPts /\ task[t].todo \in Seq(Kinds)
    /\ batch \subseteq Updates
    /\ job \in [Effects -> {"none", "pending", "inflight", "done"}]
    /\ faults \in Nat

\* A row is accounted only when the version has reached its update, or the deletion it
\* stands for is on the queue: no crash, exception or second reader of the row makes an
\* update disappear before its effects are durable (_settle, account).
AccountedIsDurable ==
    \A u \in Updates :
      row[u].state \in {"accounted", "dropped"} =>
        IF Update[u].family = "delete" THEN job[<<"delete", u>>] # "none"
        ELSE version[Of(u)].known /\ version[Of(u)].pts >= u

Newest(S, or) == IF S = {} THEN or ELSE CHOOSE u \in S : \A v \in S : v <= u
Carried(kind, m) == Newest({u \in first[m]..version[m].pts \cap Updates :
                              Of(u) = m /\ job[<<kind, u>>] # "none"}, first[m])

AddsUp(m) == /\ Text(Carried("edit", m)) = Text(version[m].pts)
             /\ Reaction(Carried("reaction", m)) = Reaction(version[m].pts)

\* The changes handed to the queue, newest last, are exactly what leads from the
\* message as first seen to its stored version, in whatever order the updates were
\* handled, unless a crash or an exception tore one apart (_read_decide_and_commit).
ChangesAddUp == \A m \in Messages \ torn : version[m].known => AddsUp(m)

Quiet(m) == /\ m \notin torn \cup left
            /\ \A t \in Tasks : task[t].on # 0 => Of(task[t].on) # m

\* What MAX shows of a message nobody is working on is its stored version, when every
\* attempt was made under the lock: two readings never reach MAX in the wrong order
\* (keyed_lock, module docstring).
ShownIsNewest ==
    \A m \in Messages : Quiet(m) /\ version[m].known /\ first[m] = 0 /\ ~shown[m].deleted =>
        /\ Text(shown[m].text) = Text(version[m].pts)
        /\ Reaction(shown[m].reaction) = Reaction(version[m].pts)

\* An update that was written down is finished in the end, whoever had it claimed when
\* a drain broke off; updates and faults being finitely many, none stays unfinished
\* (claim_due, reopen).
EveryUpdateAccounted == <>[](\A u \in Updates : row[u].state \notin {"open", "claimed"})
=============================================================================
