-------------------------- MODULE OutboxInvariant --------------------------
(***************************************************************************)
(* Why the queue of Outbox never duplicates a message on its own: the      *)
(* strengthening of NoUnchosenDuplicate that every step preserves, as long *)
(* as the assumptions named in Safe hold (IInv); and what it takes, where  *)
(* nothing expires, to deliver in order and to keep the promise (CalmInv). *)
(***************************************************************************)
EXTENDS Outbox

\* What the guarantee rests on.  A lease outlives the attempt it covers; the
\* owner's commands about one job do not overlap; and coroutines end mid-step
\* only in the direction whose source cannot replay an event past its claim.
Safe ==
    /\ LeaseOutlivesAttempt
    /\ OwnerWaits
    /\ CoroutinesDie => Kinds \subseteq MaxKinds

\* A dead process does nothing but recover.
DownIsQuiet ==
    /\ ~up => /\ \A s \in Senders : sender[s] = Idle
              /\ decisions = {}
              /\ sweep.pc \in {"idle", "recover"}
    /\ sweep.pc = "recover" => ~up

\* Only the kinds that cannot be replayed coexist with dying coroutines.
ReplayableKinds ==
    \A j \in JobId : rows[j].kind \in TgKinds \/ rows[j].last > j => ~CoroutinesDie

\* A row somebody carries out is his, until its expiry or archiving overtook him.
HeldRows ==
    \A s \in Senders : Attempting(s) =>
        LET r == rows[sender[s].job] IN
        /\ r.state \in {"inflight", "expired", "archived"}
        /\ r.state = "inflight" => r.lease = "held"
        /\ r.state = "inflight" /\ sender[s].pc = "requesting" => r.marked

\* A leased row that nobody renews has nobody left who could still send it.
LapsedRows ==
    \A j \in JobId : rows[j].state = "inflight" /\ rows[j].lease # "held" =>
        \A s \in Senders : sender[s].job # j

\* Without dying coroutines a living process has a sender for every leased row.
LiveRows ==
    up /\ ~CoroutinesDie =>
        \A j \in JobId : rows[j].state = "inflight" =>
            \E s \in Senders : Attempting(s) /\ sender[s].job = j

\* An attempt that has not landed leaves room for the one copy it may create.
Unlanded(s) == /\ Attempting(s)
               /\ sender[s].pc = "settling" =>
                    sender[s].verdict \notin {"done", "unconfirmed"}

Allowance ==
    /\ NoUnchosenDuplicate
    /\ \A s \in Senders : Unlanded(s) => copies[sender[s].job] <= chosen[sender[s].job]
    /\ \A j \in JobId : \/ rows[j].state \in {"absent", "pending", "failed"}
                        \/ rows[j].state = "inflight" /\ ~rows[j].marked
                        => copies[j] <= chosen[j]

\* What the sweeper read is still so when it acts on it; a sweep of a process
\* whose coroutines all live finds nothing.
FoundRows ==
    /\ sweep.pc \in {"reclaim", "recover"} => \A found \in sweep.todo :
         /\ rows[found.job].state \in {"inflight", "archived"}
         /\ rows[found.job].marked = found.marked
         /\ ~found.marked => copies[found.job] <= chosen[found.job]
         /\ \A s \in Senders : sender[s].job # found.job
    /\ sweep.pc = "reclaim" /\ ~CoroutinesDie => sweep.todo = {}

\* Start-up recovery misses no row.
AllFound ==
    sweep.pc = "recover" =>
        \A j \in JobId : rows[j].state = "inflight" =>
            \E found \in sweep.todo : found.job = j

\* A retry or a resolution being decided is about a row nobody can touch
\* meanwhile, except to let it expire.
DecidedRows ==
    /\ \A d \in decisions : d.op \in {"retry", "resolve"} =>
         /\ rows[d.job].state \in {"failed", "ambiguous", "expired"}
         /\ \A s \in Handlers : ~(sender[s].pc = "archiving" /\ sender[s].job = d.job)
         /\ \A s \in Senders : ~(Attempting(s) /\ sender[s].job = d.job)
         /\ d.seen # "ambiguous" => copies[d.job] <= chosen[d.job]
    /\ \A d, e \in decisions : d # e => d.job # e.job

IInv ==
    /\ TypeOK
    /\ DownIsQuiet
    /\ ReplayableKinds
    /\ OneAttempt
    /\ HeldRows
    /\ LapsedRows
    /\ LiveRows
    /\ Allowance
    /\ FoundRows
    /\ AllFound
    /\ DecidedRows

-----------------------------------------------------------------------------
(* Where no job outlives its TTL, nothing overtakes the sender of a row, and   *)
(* more is true: enough for the promise and for the order of delivery.         *)

Unhurried == Safe /\ ~TimeToLive

\* Nothing is overdue, so the sweep retires nothing.
NoneExpires ==
    /\ \A j \in JobId : ~rows[j].overdue /\ rows[j].state # "expired"
    /\ sweep.pc = "expire" => sweep.todo = {}

\* Whoever acts on a row finds it as he left it or read it.
Undisturbed ==
    /\ \A s \in Senders : Attempting(s) => rows[sender[s].job].state = "inflight"
    /\ \A s \in Handlers : sender[s].pc = "archiving" =>
         /\ rows[sender[s].job].state \in {"failed", "archived"}
         /\ \A d \in decisions : d.job # sender[s].job
    /\ \A d \in decisions : /\ rows[d.job].state = d.seen
                            /\ d.op = "resolve" => d.seen = "ambiguous"
    /\ sweep.pc \in {"reclaim", "recover"} =>
         \A found \in sweep.todo : rows[found.job].state = "inflight"

\* A creating request that is being settled as done was answered.
DoneHasLanded ==
    \A s \in Senders :
        /\ sender[s].pc = "settling" /\ sender[s].verdict = "done"
        /\ Creating(KindOf(sender[s].job))
        => copies[sender[s].job] > 0

\* The table fills from the first id on, and all that is spoken of is in it.
NoGaps ==
    /\ \A j \in JobId : rows[j].state = "absent" => rows[j].kind = "none"
    /\ \A i, j \in JobId : i < j /\ rows[i].state = "absent" => rows[j].state = "absent"
    /\ \A j \in JobId : rows[j].state # "absent" =>
         rows[j].last \in JobId /\ rows[rows[j].last].state # "absent"
    /\ \A s \in Senders : sender[s].pc # "idle" => rows[sender[s].job].state # "absent"

\* i is one of the jobs that s must let pass before it sends j.
Ahead(i, s, j) ==
    \/ /\ s = Worker \/ Barrier(KindOf(j)) = "direction"
       /\ Direction(KindOf(i)) = Direction(KindOf(j))
    \/ s # Worker /\ KindOf(j) = "tg_text" /\ KindOf(i) = "tg_text"

\* Nothing s must let pass is still to be delivered, but what the owner put back.
Foremost(s, j) ==
    \A i \in 1..(j-1) : Ahead(i, s, j) /\ Undelivered(rows[i]) => i \in reopened

\* Past the check of its turn, up to the end of the request.
Underway == {"claiming", "preparing", "requesting"}

\* What a sender was told when it asked for its turn stays true until it has sent.
TurnStays ==
    \A s \in Senders : sender[s].pc \in Underway => Foremost(s, sender[s].job)

\* All of it, beside IInv.
CalmInv == NoneExpires /\ Undisturbed /\ DoneHasLanded /\ NoGaps /\ TurnStays
=============================================================================
