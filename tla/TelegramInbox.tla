--------------------------- MODULE TelegramInbox ---------------------------
(***************************************************************************)
(* The durable intake of one contact bot (telegram/runner.py,              *)
(* TelegramInboxRepository).                                               *)
(*                                                                         *)
(* A poller stores every update before it moves the offset by which        *)
(* Telegram forgets it; a drainer claims stored updates under a lease and  *)
(* hands them to the dispatcher one at a time, oldest first.  The process  *)
(* may die anywhere.  A runner may also be stopped, with a bounded wait    *)
(* for the drainer, and started again in a process that lives on, where    *)
(* nothing is requeued.  Updates are numbered in the order Telegram has    *)
(* them, which is also the order of the rows.                              *)
(***************************************************************************)
EXTENDS Naturals, FiniteSets

CONSTANTS
    Last,            \* Telegram has the updates 1..Last for this bot
    Limit,           \* claim_open's limit
    MaxAttempts,     \* MAX_INTAKE_ATTEMPTS
    Unreadable,      \* updates that do not survive the round trip through JSON
    MaxFaults,       \* bound: crashes, stops and database errors
    DatabaseFails,   \* a statement may raise (DatabaseUnavailableError)
    RunnerRestarts   \* a runner is stopped and started in a living process

Updates == 1..Last

ASSUME TelegramInboxAssumption ==
    /\ Last \in Nat /\ Limit \in Nat \ {0} /\ MaxAttempts \in Nat \ {0}
    /\ MaxFaults \in Nat /\ Unreadable \subseteq Updates
    /\ {DatabaseFails, RunnerRestarts} \subseteq BOOLEAN

VARIABLES
    arrived,    \* how many updates Telegram has had for the bot
    confirmed,  \* Telegram has forgotten every update below this
    row,        \* telegram_inbox
    cursor,     \* telegram_offset.next_offset, 0 for no row
    poller,     \* _poll and _take
    drainer,    \* _process_inbox
    process,    \* "down", "up", "stopping", or "stopped" in a living process
    faults,     \* how much of MaxFaults is used
    handled,    \* history: how often the dispatcher took the update
    raised,     \* history: how often it raised
    cut         \* history: how often the work was cut off before its mark

telegram == <<arrived, confirmed>>
history == <<handled, raised, cut>>
vars == <<telegram, row, cursor, poller, drainer, process, faults, history>>

-----------------------------------------------------------------------------
(* State *)

NoRow == [state |-> "none", attempts |-> 0, lapsed |-> FALSE]
Row == [state : {"none", "received", "leased", "done", "failed"},
        attempts : Nat, lapsed : BOOLEAN]

PollerOff == [pc |-> "off", offset |-> 0, batch |-> {}, top |-> 0]
Poller == [pc : {"off", "resuming", "polling", "storing", "remembering"},
           offset : Nat, batch : SUBSET Updates, top : Nat]

DrainerOff == [pc |-> "off", batch |-> {}, verdict |-> "none"]
DrainerIdle == [DrainerOff EXCEPT !.pc = "idle"]
Drainer == [pc : {"off", "idle", "feeding", "marking"}, batch : SUBSET Updates,
            verdict : {"none", "done", "release", "failed"}]

Init ==
    /\ arrived = 0 /\ confirmed = 0
    /\ row = [u \in Updates |-> NoRow] /\ cursor = 0
    /\ poller = PollerOff /\ drainer = DrainerOff
    /\ process = "down" /\ faults = 0
    /\ handled = [u \in Updates |-> 0]
    /\ raised = [u \in Updates |-> 0]
    /\ cut = [u \in Updates |-> 0]

Fault == faults < MaxFaults /\ faults' = faults + 1
DatabaseError == DatabaseFails /\ Fault

Oldest(S) == {u \in S : \A v \in S : u <= v}
Larger(a, b) == IF a < b THEN b ELSE a

-----------------------------------------------------------------------------
(* Polling *)

Arrives ==
    /\ arrived < Last
    /\ arrived' = arrived + 1
    /\ UNCHANGED <<confirmed, row, cursor, poller, drainer, process, faults, history>>

\* _resume_offset, which suppresses whatever reading the cursor raises.
ResumeOffset ==
    /\ poller.pc = "resuming"
    /\ \/ poller' = [poller EXCEPT !.pc = "polling", !.offset = cursor] /\ UNCHANGED faults
       \/ poller' = [poller EXCEPT !.pc = "polling"] /\ DatabaseError
    /\ UNCHANGED <<telegram, row, cursor, drainer, process, history>>

\* The offset sent is what makes Telegram forget; it answers with the rest.
GetUpdates ==
    /\ poller.pc = "polling"
    /\ confirmed' = Larger(confirmed, poller.offset)
    /\ LET updates == {u \in Updates : confirmed' <= u /\ u <= arrived} IN
       poller' = IF updates = {} THEN poller
                 ELSE [poller EXCEPT !.pc = "storing", !.batch = updates, !.top = arrived + 1]
    /\ UNCHANGED <<arrived, row, cursor, drainer, process, faults, history>>

\* store: an update that has a row already keeps it.
Stored(r) == IF r.state = "none" THEN [r EXCEPT !.state = "received"] ELSE r

\* _take: all of the batch is stored before the offset moves.
BadTake(u) ==
    /\ poller.pc = "storing" /\ u \in Oldest(poller.batch)
    /\ row' = [row EXCEPT ![u] = Stored(@)]
    /\ LET rest == poller.batch \ {u} IN
       poller' = [poller EXCEPT !.pc = IF rest = {} THEN "remembering" ELSE @,
                                !.batch = rest, !.offset = poller.top]
    /\ UNCHANGED <<telegram, cursor, drainer, process, faults, history>>
Take(u) ==
    /\ poller.pc = "storing" /\ u \in Oldest(poller.batch)
    /\ row' = [row EXCEPT ![u] = Stored(@)]
    /\ LET rest == poller.batch \ {u} IN
       poller' = IF rest = {}
                 THEN [poller EXCEPT !.pc = "remembering", !.batch = {}, !.offset = poller.top]
                 ELSE [poller EXCEPT !.batch = rest]
    /\ UNCHANGED <<telegram, cursor, drainer, process, faults, history>>

\* The offset stays and the batch is fetched again.
TakeRaises ==
    /\ poller.pc = "storing" /\ DatabaseError
    /\ poller' = [poller EXCEPT !.pc = "polling", !.batch = {}]
    /\ UNCHANGED <<telegram, row, cursor, drainer, process, history>>

\* remember_offset; when it raises, the offset in memory has moved all the same.
RememberOffset ==
    /\ poller.pc = "remembering"
    /\ poller' = [poller EXCEPT !.pc = "polling"]
    /\ \/ cursor' = Larger(cursor, poller.offset) /\ UNCHANGED faults
       \/ DatabaseError /\ UNCHANGED cursor
    /\ UNCHANGED <<telegram, row, drainer, process, history>>

-----------------------------------------------------------------------------
(* Draining *)

BadOpen == {u \in Updates : row[u].state = "received"}
Open == {u \in Updates : \/ row[u].state = "received"
                         \/ row[u].state = "leased" /\ row[u].lapsed}

Claimable(S) ==
    /\ S \subseteq Open /\ S # {} /\ Cardinality(S) <= Limit
    /\ \A u \in S, v \in Open \ S : u < v
    /\ S # Open => Cardinality(S) = Limit

Lease(S) == [u \in Updates |-> IF u \in S
                               THEN [row[u] EXCEPT !.state = "leased", !.lapsed = FALSE]
                               ELSE row[u]]

\* claim_open, then the loop over what it returned.
ClaimOpen ==
    /\ drainer.pc = "idle"
    /\ \E S \in SUBSET Open :
         /\ Claimable(S)
         /\ row' = Lease(S)
         /\ drainer' = [drainer EXCEPT !.pc = "feeding", !.batch = S]
    /\ UNCHANGED <<telegram, cursor, poller, process, faults, history>>

\* A drainer that is being stopped leaves when nothing is open, or when it cannot see.
DrainerLeaves ==
    /\ drainer.pc = "idle" /\ process = "stopping"
    /\ \/ Open = {} /\ UNCHANGED faults
       \/ DatabaseError
    /\ drainer' = DrainerOff
    /\ UNCHANGED <<telegram, row, cursor, poller, process, history>>

Concludes(verdict) == drainer' = [drainer EXCEPT !.pc = "marking", !.verdict = verdict]

\* The dispatcher took the update.
Handled(u) ==
    /\ drainer.pc = "feeding" /\ u \in Oldest(drainer.batch) \ Unreadable
    /\ handled' = [handled EXCEPT ![u] = @ + 1]
    /\ Concludes("done")
    /\ UNCHANGED <<telegram, row, cursor, poller, process, faults, raised, cut>>

\* It raised: handed back, or parked after MAX_INTAKE_ATTEMPTS passes.
Raises(u) ==
    /\ drainer.pc = "feeding" /\ u \in Oldest(drainer.batch) \ Unreadable
    /\ raised' = [raised EXCEPT ![u] = @ + 1]
    /\ Concludes(IF row[u].attempts + 1 >= MaxAttempts THEN "failed" ELSE "release")
    /\ UNCHANGED <<telegram, row, cursor, poller, process, faults, handled, cut>>

CannotRead(u) ==
    /\ drainer.pc = "feeding" /\ u \in Oldest(drainer.batch) \cap Unreadable
    /\ Concludes("failed")
    /\ UNCHANGED <<telegram, row, cursor, poller, process, faults, history>>

\* mark_done, release, mark_failed.
BadMarked(r, verdict) ==
    [state    |-> CASE verdict = "done" -> "done"
                    [] verdict = "failed" -> "failed"
                    [] OTHER -> "received",
     attempts |-> IF verdict = "release" THEN r.attempts - 1 ELSE r.attempts + 1,
     lapsed   |-> FALSE]
Marked(r, verdict) ==
    [state    |-> CASE verdict = "done" -> "done"
                    [] verdict = "failed" -> "failed"
                    [] OTHER -> "received",
     attempts |-> IF verdict = "done" THEN r.attempts ELSE r.attempts + 1,
     lapsed   |-> FALSE]

Mark(u) ==
    /\ drainer.pc = "marking" /\ u \in Oldest(drainer.batch)
    /\ row' = [row EXCEPT ![u] = Marked(@, drainer.verdict)]
    /\ LET rest == drainer.batch \ {u} IN
       drainer' = IF rest = {} THEN DrainerIdle
                  ELSE [pc |-> "feeding", batch |-> rest, verdict |-> "none"]
    /\ UNCHANGED <<telegram, cursor, poller, process, faults, history>>

\* What the history keeps when the drainer goes away with work in hand.
CutOff == cut' = [u \in Updates |->
    IF drainer.pc = "marking" /\ drainer.verdict = "done" /\ u \in Oldest(drainer.batch)
    THEN cut[u] + 1 ELSE cut[u]]

\* Nothing catches what a mark raises, and nothing starts the task again.
MarkRaises ==
    /\ drainer.pc = "marking" /\ DatabaseError
    /\ CutOff
    /\ drainer' = DrainerOff
    /\ UNCHANGED <<telegram, row, cursor, poller, process, handled, raised>>

\* The lease runs out; the drainer that holds it does not look at it.
LeaseLapses(u) ==
    /\ row[u].state = "leased" /\ ~row[u].lapsed
    /\ row' = [row EXCEPT ![u].lapsed = TRUE]
    /\ UNCHANGED <<telegram, cursor, poller, drainer, process, faults, history>>

-----------------------------------------------------------------------------
(* Starting and stopping *)

\* BotRunner.start.
RunnerStarts ==
    /\ process' = "up"
    /\ poller' = [PollerOff EXCEPT !.pc = "resuming"]
    /\ drainer' = DrainerIdle

\* requeue_leased.
BadRequeued(r) == IF r.state # "none"
                  THEN [r EXCEPT !.state = "received", !.lapsed = FALSE] ELSE r
BadRequeuedNothing(r) == r
Requeued(r) == IF r.state = "leased"
               THEN [r EXCEPT !.state = "received", !.lapsed = FALSE] ELSE r

Boot ==
    /\ process = "down"
    /\ row' = [u \in Updates |-> Requeued(row[u])]
    /\ RunnerStarts
    /\ UNCHANGED <<telegram, cursor, faults, history>>

\* start_worker in a process that lives on.
Restart ==
    /\ RunnerRestarts /\ process = "stopped"
    /\ RunnerStarts
    /\ UNCHANGED <<telegram, row, cursor, faults, history>>

\* stop: polling is cancelled wherever it is, the drainer goes on for a while.
Stop ==
    /\ process = "up" /\ Fault
    /\ process' = "stopping" /\ poller' = PollerOff
    /\ UNCHANGED <<telegram, row, cursor, drainer, history>>

\* The wait ran out: the drainer is cancelled in what it is doing.  A statement
\* under way may commit or not; an update being dispatched is handed back.
DrainTimesOut ==
    /\ process = "stopping" /\ drainer.pc # "off"
    /\ \/ /\ drainer.pc = "idle"
          /\ row' = row \/ \E S \in SUBSET Open : Claimable(S) /\ row' = Lease(S)
          /\ UNCHANGED cut
       \/ /\ drainer.pc = "feeding"
          /\ \E u \in Oldest(drainer.batch) : row' = [row EXCEPT ![u] = Marked(@, "release")]
          /\ UNCHANGED cut
       \/ /\ drainer.pc = "marking"
          /\ \E u \in Oldest(drainer.batch) :
               row' \in {row, [row EXCEPT ![u] = Marked(@, drainer.verdict)]}
          /\ CutOff
    /\ drainer' = DrainerOff
    /\ UNCHANGED <<telegram, cursor, poller, process, faults, handled, raised>>

Stopped ==
    /\ process = "stopping" /\ drainer.pc = "off"
    /\ process' = "stopped"
    /\ UNCHANGED <<telegram, row, cursor, poller, drainer, faults, history>>

Exit ==
    /\ process = "stopped"
    /\ process' = "down"
    /\ UNCHANGED <<telegram, row, cursor, poller, drainer, faults, history>>

Crash ==
    /\ process # "down" /\ Fault
    /\ process' = "down" /\ poller' = PollerOff /\ drainer' = DrainerOff
    /\ CutOff
    /\ UNCHANGED <<telegram, row, cursor, handled, raised>>

-----------------------------------------------------------------------------
Polling == \/ ResumeOffset \/ GetUpdates \/ TakeRaises \/ RememberOffset
           \/ \E u \in Updates : Take(u)

Dispatching == \E u \in Updates : Handled(u) \/ Raises(u) \/ CannotRead(u) \/ Mark(u)
Draining == ClaimOpen \/ DrainerLeaves \/ Dispatching

Lifecycle == Boot \/ Restart \/ Stopped \/ Exit

Next == \/ Arrives \/ Polling \/ Draining \/ MarkRaises
        \/ \E u \in Updates : LeaseLapses(u)
        \/ Lifecycle \/ Stop \/ DrainTimesOut \/ Crash

Spec == Init /\ [][Next]_vars

\* Tasks run, time passes, and a runner that was stopped is started again.
Fairness == /\ WF_vars(Polling) /\ WF_vars(Draining) /\ WF_vars(Lifecycle)
            /\ \A u \in Updates : WF_vars(LeaseLapses(u))

FairSpec == Spec /\ Fairness

-----------------------------------------------------------------------------
(* Properties *)

\* Every variable keeps its type.
TypeOK ==
    /\ arrived \in Nat /\ confirmed \in Nat /\ cursor \in Nat /\ faults \in Nat
    /\ row \in [Updates -> Row]
    /\ poller \in Poller /\ drainer \in Drainer
    /\ process \in {"down", "up", "stopping", "stopped"}
    /\ handled \in [Updates -> Nat] /\ raised \in [Updates -> Nat] /\ cut \in [Updates -> Nat]

StoredBelow(n) == \A u \in Updates : u < n => row[u].state # "none"

\* Telegram forgets an update only when it is on disk, whatever part of a batch was
\* stored before an error, a stop or a crash, and whatever cursor is resumed (_take).
AcknowledgedIsStored == StoredBelow(confirmed)

\* The dispatcher takes an update a second time only when a crash, a stop or a
\* database error came between the first time and its mark (claim_open, mark_done).
HandledOnce == \A u \in Updates : handled[u] <= 1 + cut[u]

Finished(u) == row[u].state \in {"done", "failed"}

\* Updates are handled in the order they came: an older one is finished, or was
\* handed back because it raised (_process_inbox, claim_open, requeue_leased).
HandledInTurn ==
    [][\A u, v \in Updates :
         v < u /\ handled'[u] > handled[u] /\ row[v].state # "none"
         => Finished(v) \/ raised[v] > 0]_vars

\* Every update Telegram has for the bot is handled or parked in the end.
EveryUpdateFinishes == \A u \in Updates : u <= arrived ~> Finished(u)
=============================================================================
