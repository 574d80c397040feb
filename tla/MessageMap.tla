----------------------------- MODULE MessageMap -----------------------------
(***************************************************************************)
(* One MAX chat and the mapping that ties its messages to Telegram         *)
(* (storage/repositories.py, routing/router.py, service/runtime.py).       *)
(*                                                                         *)
(* A MAX message reaches the bridge through live events and through the    *)
(* repeated re-reading of the chat's tail, and the row that claims it in   *)
(* message_map is what makes all but one of those readings harmless.  The  *)
(* claim and the delivery job are two commits, so a start releases what    *)
(* the last run claimed and never gave a job.  In the other direction the  *)
(* mapping row of an owner's message learns the id MAX gave it only after  *)
(* the send, and that id is all an echo can be recognised by.              *)
(*                                                                         *)
(* The delivery itself is Outbox: here a job is "waiting", being sent, or  *)
(* settled, and nobody resolves it by hand.                                *)
(***************************************************************************)
EXTENDS Naturals, FiniteSets

CONSTANTS
    Contact,         \* what is written in MAX
    Own,             \* what the owner writes in Telegram; in MAX, what became of it
    Live,            \* MAX events being handled at the same time
    Tail,            \* the one reader that walks the chat's tail
    MaxRuns,         \* bound: times the process is started
    MirrorsOwn,      \* own_messages.mirror: the owner's own MAX messages are carried
    HandlersDie,     \* a handler may end by an exception in a living process
    StartsWhole      \* no process dies while it is starting

Message == Contact \cup Own
Readers == Live \cup {Tail}

ASSUME MessageMapAssumption ==
    /\ Contact \cap Own = {} /\ Tail \notin Live /\ IsFiniteSet(Message)
    /\ MaxRuns \in Nat \ {0}
    /\ {MirrorsOwn, HandlersDie, StartsWhole} \subseteq BOOLEAN

VARIABLES
    chat,     \* the messages the MAX chat holds
    claim,    \* message_map rows written by claim_from_max
    record,   \* message_map rows written by record_from_telegram
    carry,    \* the job that carries a MAX message into Telegram
    post,     \* the job that carries the owner's message into MAX
    reader,   \* what each reader of MAX messages is in the middle of
    backlog,  \* the rest of the tail as it was fetched
    phase,    \* "down", the steps of a start, or "up"
    run,      \* which run of the process this is
    marker,   \* the run KEY_PROCESS_STARTED_AT names, 0 before the first
    since     \* the marker as this start read it

bridge == <<claim, record, carry, post>>
start == <<phase, run, marker, since>>
vars == <<chat, bridge, reader, backlog, start>>

-----------------------------------------------------------------------------
(* State *)

\* A claim is told apart by the run that wrote it (created_at); 0 is no row.
Unclaimed == [run |-> 0, placed |-> FALSE]
Claim == [run : 0..MaxRuns, placed : BOOLEAN]

\* "landed": the answer is in hand; "placed": the mapping has its id as well.
\* "accounted" is a job that was only written down (submit_noop, _unstorable).
JobStates == {"none", "waiting", "sending", "landed", "placed",
              "done", "ambiguous", "failed", "accounted"}

\* The payload's link_id: which claim the job's answer is to be written on.
NoJob == [state |-> "none", link |-> 0]
Job == [state : JobStates, link : 0..MaxRuns]

Idle == [pc |-> "idle"]
Reader == {Idle} \cup [pc : {"asking", "claiming", "rendering"}, msg : Message]

Handles(r, pc, m) == reader' = [reader EXCEPT ![r] = [pc |-> pc, msg |-> m]]
Leaves(r) == reader' = [reader EXCEPT ![r] = Idle]
Moves(m, state) == carry' = [carry EXCEPT ![m].state = state]
Posts(u, state) == post' = [post EXCEPT ![u] = state]

Up == phase = "up"

\* The unique index on (max_chat_id, max_message_id, telegram_bot_id).
Known(m) == \/ claim[m].run # 0
            \/ m \in Own /\ record[m] = "attached"

Init ==
    /\ chat = {}
    /\ claim = [m \in Message |-> Unclaimed]
    /\ record = [u \in Own |-> "none"]
    /\ carry = [m \in Message |-> NoJob]
    /\ post = [u \in Own |-> "none"]
    /\ reader = [r \in Readers |-> Idle]
    /\ backlog = {}
    /\ phase = "down" /\ run = 0 /\ marker = 0 /\ since = 0

-----------------------------------------------------------------------------
(* Reading MAX *)

Write(m) ==
    /\ m \in Contact \ chat
    /\ chat' = chat \cup {m}
    /\ UNCHANGED <<bridge, reader, backlog, start>>

\* A live event, which may come late, twice, or never.
Event(r, m) ==
    /\ Up /\ r \in Live /\ reader[r] = Idle /\ m \in chat
    /\ Handles(r, "asking", m)
    /\ UNCHANGED <<chat, bridge, backlog, start>>

\* fetch_history: at the end of a start, after a reconnect, and on a timer.
FetchHistory ==
    /\ Up /\ reader[Tail] = Idle /\ backlog = {} /\ chat # {}
    /\ backlog' = chat
    /\ UNCHANGED <<chat, bridge, reader, start>>

NextOfTail(m) ==
    /\ Up /\ reader[Tail] = Idle /\ m \in backlog
    /\ backlog' = backlog \ {m}
    /\ Handles(Tail, "asking", m)
    /\ UNCHANGED <<chat, bridge, start>>

\* is_echo_of_our_own, and whether the owner's own messages are carried at all.
Ask(r) ==
    /\ reader[r].pc = "asking"
    /\ LET m == reader[r].msg IN
       IF m \in Own /\ (record[m] = "attached" \/ ~MirrorsOwn)
       THEN Leaves(r) ELSE Handles(r, "claiming", m)
    /\ UNCHANGED <<chat, bridge, backlog, start>>

\* claim_from_max.
ClaimFromMax(r) ==
    /\ reader[r].pc = "claiming"
    /\ LET m == reader[r].msg IN
       IF Known(m)
       THEN Leaves(r) /\ UNCHANGED claim
       ELSE /\ claim' = [claim EXCEPT ![m] = [run |-> run, placed |-> FALSE]]
            /\ Handles(r, "rendering", m)
    /\ UNCHANGED <<chat, record, carry, post, backlog, start>>

\* The job of the claimed message, under its source_key: to be sent, or only
\* accounted for.  A key that has a job already keeps it.
Submit(r) ==
    /\ reader[r].pc = "rendering"
    /\ LET m == reader[r].msg IN
       IF carry[m] = NoJob
       THEN \E state \in {"waiting", "accounted"} :
              carry' = [carry EXCEPT ![m] = [state |-> state, link |-> claim[m].run]]
       ELSE UNCHANGED carry
    /\ Leaves(r)
    /\ UNCHANGED <<chat, claim, record, post, backlog, start>>

\* Anything on the way raised; _safely swallows it, a failed walk ends there.
Fails(r) ==
    /\ HandlersDie /\ reader[r] # Idle
    /\ Leaves(r)
    /\ backlog' = IF r = Tail THEN {} ELSE backlog
    /\ UNCHANGED <<chat, bridge, start>>

-----------------------------------------------------------------------------
(* Carrying a message into Telegram (send_job) *)

Send(m) ==
    /\ Up /\ carry[m].state = "waiting"
    /\ Moves(m, "sending")
    /\ UNCHANGED <<chat, claim, record, post, reader, backlog, start>>

\* Telegram answers, refuses for now or for good, or says nothing.
Answer(m) ==
    /\ carry[m].state = "sending" /\ Up
    /\ \E state \in {"landed", "waiting", "failed", "ambiguous"} : Moves(m, state)
    /\ UNCHANGED <<chat, claim, record, post, reader, backlog, start>>

\* settle_telegram_delivery_mapping: the id goes onto the row the payload names.
BadAttachTelegram(m) ==
    /\ carry[m].state = "landed" /\ Up
    /\ Moves(m, "placed")
    /\ UNCHANGED <<chat, claim, record, post, reader, backlog, start>>
AttachTelegram(m) ==
    /\ carry[m].state = "landed" /\ Up
    /\ claim' = IF claim[m].run = carry[m].link
                THEN [claim EXCEPT ![m].placed = TRUE] ELSE claim
    /\ Moves(m, "placed")
    /\ UNCHANGED <<chat, record, post, reader, backlog, start>>

CarryDone(m) ==
    /\ carry[m].state = "placed" /\ Up
    /\ Moves(m, "done")
    /\ UNCHANGED <<chat, claim, record, post, reader, backlog, start>>

-----------------------------------------------------------------------------
(* Carrying the owner's message into MAX *)

\* record_from_telegram, before the job and long before MAX has an id for it.
RecordFromTelegram(u) ==
    /\ Up /\ record[u] = "none"
    /\ record' = [record EXCEPT ![u] = "recorded"]
    /\ UNCHANGED <<chat, claim, carry, post, reader, backlog, start>>

\* The job; the owner session's catch-up repeats an update that got no further.
SubmitPost(u) ==
    /\ Up /\ record[u] = "recorded" /\ post[u] = "none"
    /\ Posts(u, "waiting")
    /\ UNCHANGED <<chat, claim, record, carry, reader, backlog, start>>

SendPost(u) ==
    /\ Up /\ post[u] = "waiting"
    /\ Posts(u, "sending")
    /\ UNCHANGED <<chat, claim, record, carry, reader, backlog, start>>

\* MAX creates the message; its answer comes back or is lost.
PostLands(u) ==
    /\ Up /\ post[u] = "sending" /\ u \notin chat
    /\ chat' = chat \cup {u}
    /\ \E state \in {"landed", "ambiguous"} : Posts(u, state)
    /\ UNCHANGED <<claim, record, carry, reader, backlog, start>>

PostFails(u) ==
    /\ Up /\ post[u] = "sending"
    /\ \E state \in {"waiting", "failed", "ambiguous"} : Posts(u, state)
    /\ UNCHANGED <<chat, claim, record, carry, reader, backlog, start>>

\* settle_max_delivery_mapping, attach_max_message.  The unique index refuses an
\* id that a claim already holds; past the mark any error is an open question.
BadAttachMax(u) ==
    /\ Up /\ post[u] = "landed"
    /\ Posts(u, "placed") /\ record' = [record EXCEPT ![u] = "attached"]
    /\ UNCHANGED <<chat, claim, carry, reader, backlog, start>>
AttachMax(u) ==
    /\ Up /\ post[u] = "landed"
    /\ IF claim[u].run # 0
       THEN Posts(u, "ambiguous") /\ UNCHANGED record
       ELSE Posts(u, "placed") /\ record' = [record EXCEPT ![u] = "attached"]
    /\ UNCHANGED <<chat, claim, carry, reader, backlog, start>>

PostDone(u) ==
    /\ Up /\ post[u] = "placed"
    /\ Posts(u, "done")
    /\ UNCHANGED <<chat, claim, record, carry, reader, backlog, start>>

-----------------------------------------------------------------------------
(* The process *)

Midway == {"sending", "landed", "placed"}

\* requeue_inflight judges what the last run was in the middle of.
Recovered(state) == IF state \in Midway THEN "ambiguous" ELSE state

\* previous_start_at is read before note_start moves the marker.
BadBounds == run' = run + 1 /\ marker' = run + 1 /\ since' = marker'
BadBoundsEarly == run' = run + 1 /\ since' = marker - 1 /\ marker' = run + 1
Bounds == run' = run + 1 /\ since' = marker /\ marker' = run + 1

\* start, up to the release of claims.
Begin ==
    /\ phase = "down" /\ run < MaxRuns
    /\ carry' = [m \in Message |-> [carry[m] EXCEPT !.state = Recovered(@)]]
    /\ post' = [u \in Own |-> Recovered(post[u])]
    /\ Bounds
    /\ phase' = "releasing"
    /\ UNCHANGED <<chat, claim, record, reader, backlog>>

\* unsent_claims: no Telegram id, no job, and written by the run that just ended.
BadStranded == {m \in Message : claim[m].run # 0 /\ ~claim[m].placed /\ claim[m].run >= since}
BadStrandedLate == {m \in Message : /\ claim[m].run # 0 /\ ~claim[m].placed
                                    /\ claim[m].run > since
                                    /\ carry[m] = NoJob}
Stranded == {m \in Message : /\ claim[m].run # 0 /\ ~claim[m].placed
                             /\ claim[m].run >= since
                             /\ carry[m] = NoJob}

\* _release_unsent_claims, one row of it; a first start has nothing to release.
Release(m) ==
    /\ phase = "releasing" /\ since # 0 /\ m \in Stranded
    /\ claim' = [claim EXCEPT ![m] = Unclaimed]
    /\ UNCHANGED <<chat, record, carry, post, reader, backlog, start>>

\* The rest of start: handlers are registered, bots and workers run.
Started ==
    /\ phase = "releasing" /\ (since # 0 => Stranded = {})
    /\ phase' = "up"
    /\ UNCHANGED <<chat, bridge, reader, backlog, run, marker, since>>

Crash ==
    /\ Up \/ (phase = "releasing" /\ ~StartsWhole)
    /\ run < MaxRuns
    /\ phase' = "down"
    /\ reader' = [r \in Readers |-> Idle]
    /\ backlog' = {}
    /\ UNCHANGED <<chat, bridge, run, marker, since>>

-----------------------------------------------------------------------------
Handle(r) == Ask(r) \/ ClaimFromMax(r) \/ Submit(r)

WalkTail == FetchHistory \/ \E m \in Message : NextOfTail(m)

Carrying == \E m \in Message : Send(m) \/ Answer(m) \/ AttachTelegram(m) \/ CarryDone(m)

Posting == \E u \in Own : \/ RecordFromTelegram(u) \/ SubmitPost(u) \/ SendPost(u)
                          \/ PostLands(u) \/ PostFails(u) \/ AttachMax(u) \/ PostDone(u)

Starting == Begin \/ (\E m \in Message : Release(m)) \/ Started

Next == \/ \E m \in Message : Write(m)
        \/ \E r \in Live, m \in Message : Event(r, m)
        \/ WalkTail
        \/ \E r \in Readers : Handle(r) \/ Fails(r)
        \/ Carrying
        \/ Posting
        \/ Starting
        \/ Crash

Spec == Init /\ [][Next]_vars

\* Handlers run, the tail is read again and again, and a dead process is started.
Fairness == /\ \A r \in Readers : WF_vars(Handle(r))
            /\ WF_vars(WalkTail)
            /\ WF_vars(Starting)

FairSpec == Spec /\ Fairness

-----------------------------------------------------------------------------
(* Properties *)

\* Every variable keeps its type.
TypeOK ==
    /\ chat \subseteq Message /\ backlog \subseteq Message
    /\ claim \in [Message -> Claim]
    /\ record \in [Own -> {"none", "recorded", "attached"}]
    /\ carry \in [Message -> Job] /\ post \in [Own -> JobStates]
    /\ reader \in [Readers -> Reader]
    /\ phase \in {"down", "releasing", "up"}
    /\ run \in 0..MaxRuns /\ marker \in 0..MaxRuns /\ since \in 0..MaxRuns

\* A delivered message can be replied to, edited and deleted: in either direction
\* the mapping has the remote id by the time the job is done, whichever sender
\* carried it and whatever was released meanwhile (settle_*_delivery_mapping).
DeliveredIsMapped ==
    /\ \A m \in Message : carry[m].state = "done" => claim[m].placed
    /\ \A u \in Own : post[u] = "done" => record[u] = "attached"

\* A claim is let go only when nothing was, or could still be, sent under it.
ReleasedWasNeverSent ==
    [][\A m \in Message : claim[m].run # 0 /\ claim'[m].run = 0
                          => carry[m] = NoJob /\ carry'[m] = NoJob]_vars

\* A claim nobody is working on and that has no job.
Abandoned(m) == /\ claim[m].run # 0 /\ ~claim[m].placed /\ carry[m] = NoJob
                /\ \A r \in Readers : reader[r] # [pc |-> "rendering", msg |-> m]

\* Whatever a run abandons, the release that follows it will find: no claim falls
\* behind the bound (previous_start_at, unsent_claims).
AbandonedIsInReach ==
    \A m \in Message : Abandoned(m) =>
        claim[m].run >= (IF phase = "releasing" THEN since ELSE marker)

\* An echo that slipped through leaves the send that made it an open question,
\* never a delivered message mapped twice (idx_message_map_max, settle).
SettledEchoIsRecognised ==
    \A u \in Own : post[u] \in {"placed", "done"} => claim[u].run = 0

\* Every message written in MAX gets a job or a recorded reason, whatever the
\* process dies in the middle of: live events may be lost, the tail is re-read.
EveryMessageIsAccounted ==
    \A m \in Contact : m \in chat ~> carry[m] # NoJob
=============================================================================
