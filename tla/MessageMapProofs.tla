-------------------------- MODULE MessageMapProofs --------------------------
(***************************************************************************)
(* What holds of the mapping for any messages, any readers of the chat and *)
(* any number of starts.  The properties lean on each other through the    *)
(* claim: a job exists only under the claim it was made for, a claim with  *)
(* a job is never let go, and a row that a MAX id was attached to shuts    *)
(* the claim out (MapInv).  Where a claim may lie is a matter of the       *)
(* start's marker (ReachInv), and needs that a start is not cut short.     *)
(***************************************************************************)
EXTENDS MessageMap, TLAPS

Rendering(r, m) == reader[r] = [pc |-> "rendering", msg |-> m]

\* A job hangs on the claim it was made for; an attached id and a claim shut each
\* other out; no handler outlives its process.
MapInv ==
    /\ \A m \in Message : carry[m] # NoJob =>
         carry[m].state # "none" /\ claim[m].run = carry[m].link /\ claim[m].run # 0
    /\ \A m \in Message : carry[m].state \in {"placed", "done"} => claim[m].placed
    /\ \A u \in Own : post[u] \in {"placed", "done"} => record[u] = "attached" /\ claim[u].run = 0
    /\ phase # "up" => \A r \in Readers : reader[r] = Idle
    /\ \A r \in Readers, m \in Message : Rendering(r, m) => claim[m].run # 0
    /\ phase # "down" => run # 0

-----------------------------------------------------------------------------
(* Types *)

\* What a reader turns to (_safely, the walk of the tail).
LEMMA ReaderMoves ==
    ASSUME TypeOK, NEW r \in Readers, NEW m \in Message
    PROVE  /\ \A pc \in {"asking", "claiming", "rendering"} : Handles(r, pc, m) =>
                /\ reader' \in [Readers -> Reader]
                /\ reader'[r] = [pc |-> pc, msg |-> m]
                /\ \A q \in Readers : q # r => reader'[q] = reader[q]
           /\ Leaves(r) =>
                /\ reader' \in [Readers -> Reader]
                /\ reader'[r] = Idle
                /\ \A q \in Readers : q # r => reader'[q] = reader[q]
<1>1. \A pc \in {"asking", "claiming", "rendering"} : [pc |-> pc, msg |-> m] \in Reader
  BY DEF Reader
<1>2. Idle \in Reader
  BY DEF Reader
<1> QED BY <1>1, <1>2, Zenon DEF TypeOK, Handles, Leaves

\* A reader that is past asking holds a message.
LEMMA ReaderHolds ==
    ASSUME TypeOK, NEW r \in Readers, reader[r].pc # "idle"
    PROVE  /\ reader[r].msg \in Message /\ reader[r] # Idle
           /\ reader[r] = [pc |-> reader[r].pc, msg |-> reader[r].msg]
<1>1. reader[r] \in Reader
  BY DEF TypeOK
<1>2. reader[r] # Idle
  BY DEF Idle
<1> QED BY <1>1, <1>2 DEF Reader

\* A job that moves on keeps its claim's name (send_job).
LEMMA JobMoves ==
    ASSUME TypeOK, NEW m \in Message, NEW state \in JobStates, Moves(m, state)
    PROVE  /\ carry' \in [Message -> Job]
           /\ carry'[m] = [state |-> state, link |-> carry[m].link]
           /\ \A n \in Message : n # m => carry'[n] = carry[n]
<1>1. carry[m] \in Job
  BY DEF TypeOK
<1>2. [carry[m] EXCEPT !.state = state] = [state |-> state, link |-> carry[m].link]
  BY <1>1 DEF Job
<1>3. [state |-> state, link |-> carry[m].link] \in Job
  BY <1>1 DEF Job
<1> QED BY <1>2, <1>3 DEF TypeOK, Moves

\* The job of the owner's message moves on.
LEMMA PostMoves ==
    ASSUME TypeOK, NEW u \in Own, NEW state \in JobStates, Posts(u, state)
    PROVE  /\ post' \in [Own -> JobStates]
           /\ post'[u] = state
           /\ \A w \in Own : w # u => post'[w] = post[w]
  BY DEF TypeOK, Posts

\* A row of message_map is written (claim_from_max, settle_telegram_delivery_mapping, release).
LEMMA ClaimMoves ==
    ASSUME TypeOK, NEW m \in Message, NEW c \in Claim, claim' = [claim EXCEPT ![m] = c]
    PROVE  /\ claim' \in [Message -> Claim]
           /\ claim'[m] = c
           /\ \A n \in Message : n # m => claim'[n] = claim[n]
  BY DEF TypeOK

\* The mark on a claim is set where the job's answer is written.
LEMMA ClaimPlaced ==
    ASSUME TypeOK, NEW m \in Message, claim' = [claim EXCEPT ![m].placed = TRUE]
    PROVE  /\ claim' \in [Message -> Claim]
           /\ claim'[m].run = claim[m].run /\ claim'[m].placed
           /\ \A n \in Message : n # m => claim'[n] = claim[n]
<1>1. claim[m] \in Claim
  BY DEF TypeOK
<1>2. [claim[m] EXCEPT !.placed = TRUE] \in Claim
  BY <1>1 DEF Claim
<1>3. claim'[m] = [claim[m] EXCEPT !.placed = TRUE]
  BY DEF TypeOK
<1>4. claim'[m].run = claim[m].run /\ claim'[m].placed
  BY <1>1, <1>3 DEF Claim
<1> QED BY <1>2, <1>4 DEF TypeOK

\* Numbers of runs (note_start).
LEMMA RunsCount == MaxRuns \in Nat /\ 0 \in 0..MaxRuns
  BY MessageMapAssumption

\* The types of the initial state.
LEMMA InitTyped == Init => TypeOK
  BY RunsCount DEF Init, TypeOK, Unclaimed, Claim, NoJob, Job, JobStates, Reader

\* The types of the steps that read MAX.
LEMMA ReadingTyped ==
    ASSUME TypeOK,
           \/ \E m \in Message : Write(m)
           \/ \E r \in Live, m \in Message : Event(r, m)
           \/ WalkTail
           \/ \E r \in Readers : Handle(r) \/ Fails(r)
    PROVE  TypeOK'
<1>0. Live \subseteq Readers /\ Tail \in Readers /\ Contact \subseteq Message
  BY DEF Readers, Message
<1>1. ASSUME NEW m \in Message, Write(m) PROVE TypeOK'
  BY <1>0, <1>1 DEF Write, TypeOK, bridge, start
<1>2. ASSUME NEW r \in Live, NEW m \in Message, Event(r, m) PROVE TypeOK'
  BY <1>0, <1>2, ReaderMoves DEF Event, TypeOK, bridge, start
<1>3. CASE FetchHistory
  BY <1>3 DEF FetchHistory, TypeOK, bridge, start
<1>4. ASSUME NEW m \in Message, NextOfTail(m) PROVE TypeOK'
  BY <1>0, <1>4, ReaderMoves DEF NextOfTail, TypeOK, bridge, start
<1>5. ASSUME NEW r \in Readers, Ask(r) PROVE TypeOK'
  <2>1. reader[r].msg \in Message
    BY <1>5, ReaderHolds DEF Ask
  <2>2. reader' \in [Readers -> Reader]
    BY <1>5, <2>1, ReaderMoves DEF Ask
  <2> QED BY <1>5, <2>2 DEF Ask, TypeOK, bridge, start
<1>6. ASSUME NEW r \in Readers, ClaimFromMax(r) PROVE TypeOK'
  <2>1. reader[r].msg \in Message
    BY <1>6, ReaderHolds DEF ClaimFromMax
  <2>2. reader' \in [Readers -> Reader]
    BY <1>6, <2>1, ReaderMoves DEF ClaimFromMax
  <2>3. [run |-> run, placed |-> FALSE] \in Claim
    BY DEF Claim, TypeOK
  <2>4. claim' \in [Message -> Claim]
    BY <1>6, <2>1, <2>3 DEF ClaimFromMax, TypeOK
  <2> QED BY <1>6, <2>2, <2>4 DEF ClaimFromMax, TypeOK, start
<1>7. ASSUME NEW r \in Readers, Submit(r) PROVE TypeOK'
  <2>1. reader[r].msg \in Message
    BY <1>7, ReaderHolds DEF Submit
  <2>2. reader' \in [Readers -> Reader]
    BY <1>7, <2>1, ReaderMoves DEF Submit
  <2>3. \A state \in {"waiting", "accounted"} :
           [state |-> state, link |-> claim[reader[r].msg].run] \in Job
    BY <2>1 DEF Job, JobStates, TypeOK, Claim
  <2>4. carry' \in [Message -> Job]
    BY <1>7, <2>1, <2>3 DEF Submit, TypeOK
  <2> QED BY <1>7, <2>2, <2>4 DEF Submit, TypeOK, start
<1>8. ASSUME NEW r \in Readers, Fails(r) PROVE TypeOK'
  <2>1. reader' \in [Readers -> Reader]
    BY <1>8 DEF Fails, Leaves, TypeOK, Reader
  <2> QED BY <1>8, <2>1 DEF Fails, TypeOK, bridge, start
<1> QED BY <1>1, <1>2, <1>3, <1>4, <1>5, <1>6, <1>7, <1>8 DEF WalkTail, Handle

\* The types of the steps that carry and post messages.
LEMMA SendingTyped == TypeOK /\ (Carrying \/ Posting) => TypeOK'
<1> SUFFICES ASSUME TypeOK, Carrying \/ Posting PROVE TypeOK'
  OBVIOUS
<1>1. ASSUME NEW m \in Message, Send(m) \/ Answer(m) \/ CarryDone(m) PROVE TypeOK'
  <2>1. \E state \in JobStates : Moves(m, state)
    BY <1>1 DEF Send, Answer, CarryDone, JobStates
  <2> QED BY <1>1, <2>1, JobMoves DEF Send, Answer, CarryDone, TypeOK, start
<1>2. ASSUME NEW m \in Message, AttachTelegram(m) PROVE TypeOK'
  <2>1. "placed" \in JobStates
    BY DEF JobStates
  <2>2. carry' \in [Message -> Job]
    BY <1>2, <2>1, JobMoves DEF AttachTelegram
  <2>3. claim' \in [Message -> Claim]
    BY <1>2, ClaimPlaced DEF AttachTelegram, TypeOK
  <2> QED BY <1>2, <2>2, <2>3 DEF AttachTelegram, TypeOK, start
<1>3. ASSUME NEW u \in Own, RecordFromTelegram(u) PROVE TypeOK'
  BY <1>3 DEF RecordFromTelegram, TypeOK, start
<1>4. ASSUME NEW u \in Own,
             SubmitPost(u) \/ SendPost(u) \/ PostLands(u) \/ PostFails(u) \/ PostDone(u)
      PROVE  TypeOK'
  <2>1. \E state \in JobStates : Posts(u, state)
    BY <1>4 DEF SubmitPost, SendPost, PostLands, PostFails, PostDone, JobStates
  <2>2. chat' \subseteq Message
    BY <1>4 DEF SubmitPost, SendPost, PostLands, PostFails, PostDone, TypeOK, Message
  <2> QED BY <1>4, <2>1, <2>2, PostMoves
      DEF SubmitPost, SendPost, PostLands, PostFails, PostDone, TypeOK, start
<1>5. ASSUME NEW u \in Own, AttachMax(u) PROVE TypeOK'
  <2>1. \E state \in JobStates : Posts(u, state)
    BY <1>5 DEF AttachMax, JobStates
  <2>2. record' \in [Own -> {"none", "recorded", "attached"}]
    BY <1>5 DEF AttachMax, TypeOK
  <2> QED BY <1>5, <2>1, <2>2, PostMoves DEF AttachMax, TypeOK, start
<1> QED BY <1>1, <1>2, <1>3, <1>4, <1>5 DEF Carrying, Posting

\* The types of the steps of the process.
LEMMA ProcessTyped == TypeOK /\ (Starting \/ Crash) => TypeOK'
<1> SUFFICES ASSUME TypeOK, Starting \/ Crash PROVE TypeOK'
  OBVIOUS
<1>1. CASE Begin
  <2>1. \A state \in JobStates : Recovered(state) \in JobStates
    BY DEF Recovered, JobStates
  <2>2. \A j \in Job : [j EXCEPT !.state = Recovered(@)] \in Job
    BY <2>1 DEF Job
  <2>3. carry' \in [Message -> Job] /\ post' \in [Own -> JobStates]
    BY <1>1, <2>1, <2>2 DEF Begin, TypeOK
  <2>4. run' \in 0..MaxRuns /\ marker' \in 0..MaxRuns /\ since' \in 0..MaxRuns
    BY <1>1, RunsCount DEF Begin, Bounds, TypeOK
  <2> QED BY <1>1, <2>3, <2>4 DEF Begin, TypeOK
<1>2. ASSUME NEW m \in Message, Release(m) PROVE TypeOK'
  <2>1. Unclaimed \in Claim
    BY RunsCount DEF Unclaimed, Claim
  <2> QED BY <1>2, <2>1 DEF Release, TypeOK, start
<1>3. CASE Started
  BY <1>3 DEF Started, TypeOK, bridge
<1>4. CASE Crash
  BY <1>4 DEF Crash, TypeOK, Reader, bridge
<1> QED BY <1>1, <1>2, <1>3, <1>4 DEF Starting

\* Every step keeps the types.
LEMMA StepTyped == TypeOK /\ [Next]_vars => TypeOK'
<1>1. TypeOK /\ UNCHANGED vars => TypeOK'
  BY DEF TypeOK, vars, bridge, start
<1> QED BY <1>1, ReadingTyped, SendingTyped, ProcessTyped DEF Next

\* Every variable of the mapping keeps its type.
THEOREM TypeCorrect == Spec => []TypeOK
  BY InitTyped, StepTyped, PTL DEF Spec

-----------------------------------------------------------------------------
(* A job and its claim *)

\* A step that writes no row and no job, and makes no reader render.
LEMMA RowsUntouched ==
    ASSUME MapInv, UNCHANGED <<bridge, start>>,
           \/ UNCHANGED reader
           \/ phase = "up" /\ \A r \in Readers, m \in Message : Rendering(r, m)' => Rendering(r, m)
    PROVE  MapInv'
  BY DEF MapInv, bridge, start, Rendering

\* Reading up to the claim, and giving up anywhere (is_echo_of_our_own, _safely).
LEMMA AskingKeeps ==
    ASSUME TypeOK, MapInv,
           \/ \E m \in Message : Write(m)
           \/ \E r \in Live, m \in Message : Event(r, m)
           \/ WalkTail
           \/ \E r \in Readers : Ask(r) \/ Fails(r)
    PROVE  MapInv'
<1>0. Live \subseteq Readers /\ Tail \in Readers
  BY DEF Readers
<1>1. ASSUME NEW r \in Readers, NEW m \in Message, phase = "up", UNCHANGED <<bridge, start>>,
             Leaves(r) \/ Handles(r, "asking", m) \/ Handles(r, "claiming", m)
      PROVE  MapInv'
  <2>1. \A q \in Readers : q # r => reader'[q] = reader[q]
    BY <1>1, ReaderMoves
  <2>2. \/ reader'[r] = Idle \/ reader'[r] = [pc |-> "asking", msg |-> m]
        \/ reader'[r] = [pc |-> "claiming", msg |-> m]
    BY <1>1, ReaderMoves
  <2>3. reader'[r].pc # "rendering"
    BY <2>2 DEF Idle
  <2> QED BY <1>1, <2>1, <2>3, RowsUntouched DEF Rendering
<1>2. ASSUME NEW r \in Readers, reader[r] # Idle PROVE phase = "up"
  BY <1>2 DEF MapInv
<1>3. ASSUME NEW m \in Message, Write(m) PROVE MapInv'
  BY <1>3, RowsUntouched DEF Write
<1>4. ASSUME NEW r \in Live, NEW m \in Message, Event(r, m) PROVE MapInv'
  BY <1>0, <1>1, <1>4 DEF Event, Up
<1>5. CASE FetchHistory
  BY <1>5, RowsUntouched DEF FetchHistory
<1>6. ASSUME NEW m \in Message, NextOfTail(m) PROVE MapInv'
  BY <1>0, <1>1, <1>6 DEF NextOfTail, Up
<1>7. ASSUME NEW r \in Readers, Ask(r) PROVE MapInv'
  <2>1. reader[r].msg \in Message /\ reader[r] # Idle
    BY <1>7, ReaderHolds DEF Ask
  <2> QED BY <1>1, <1>2, <1>7, <2>1 DEF Ask
<1>8. ASSUME NEW r \in Readers, Fails(r) PROVE MapInv'
  <2>1. \A q \in Readers : reader'[q] = Idle \/ reader'[q] = reader[q]
    BY <1>8 DEF Fails, Leaves, TypeOK
  <2> QED BY <1>2, <1>8, <2>1, RowsUntouched DEF Fails, Rendering, Idle
<1> QED BY <1>3, <1>4, <1>5, <1>6, <1>7, <1>8 DEF WalkTail

\* claim_from_max: a message that is not known has no claim, so no job, and no id
\* of an owner's message stands in its place.
LEMMA ClaimKeeps ==
    ASSUME TypeOK, MapInv, NEW r \in Readers, ClaimFromMax(r)
    PROVE  MapInv'
<1> DEFINE m == reader[r].msg
<1>1. m \in Message /\ phase = "up"
  <2>1. m \in Message /\ reader[r] # Idle
    BY ReaderHolds DEF ClaimFromMax
  <2> QED BY <2>1 DEF MapInv
<1>2. CASE Known(m)
  <2>1. UNCHANGED <<bridge, start>>
    BY <1>2 DEF ClaimFromMax, bridge
  <2>2. \A q \in Readers : reader'[q] = Idle \/ reader'[q] = reader[q]
    BY <1>1, <1>2, ReaderMoves DEF ClaimFromMax
  <2> QED BY <1>1, <2>1, <2>2, RowsUntouched DEF Rendering, Idle
<1>3. CASE ~Known(m)
  <2>1. /\ claim' = [claim EXCEPT ![m] = [run |-> run, placed |-> FALSE]]
        /\ Handles(r, "rendering", m)
        /\ UNCHANGED <<record, carry, post, start>>
    BY <1>3 DEF ClaimFromMax
  <2>2. claim[m].run = 0 /\ (m \in Own => record[m] # "attached")
    BY <1>3 DEF Known
  <2>3. carry[m] = NoJob
    BY <1>1, <2>2 DEF MapInv
  <2>4. claim'[m].run = run /\ run # 0 /\ \A n \in Message : n # m => claim'[n] = claim[n]
    BY <1>1, <2>1 DEF TypeOK, MapInv
  <2>5. \A q \in Readers, n \in Message : Rendering(q, n)' => Rendering(q, n) \/ n = m
    <3>1. reader'[r] = [pc |-> "rendering", msg |-> m]
      BY <1>1, <2>1, ReaderMoves
    <3>2. \A q \in Readers : q # r => reader'[q] = reader[q]
      BY <1>1, <2>1, ReaderMoves
    <3> QED BY <3>1, <3>2 DEF Rendering
  <2>6. \A q \in Readers, n \in Message : Rendering(q, n)' => claim'[n].run # 0
    BY <2>4, <2>5 DEF MapInv
  <2>7. \A n \in Message : carry[n] # NoJob \/ carry[n].state \in {"placed", "done"} => n # m
    BY <2>3 DEF NoJob
  <2>8. \A u \in Own : post[u] \in {"placed", "done"} => u # m /\ u \in Message
    BY <2>2 DEF MapInv, Message
  <2> QED BY <1>1, <2>1, <2>4, <2>6, <2>7, <2>8 DEF MapInv, start
<1> QED BY <1>2, <1>3

\* The job is made under the claim its reader holds (submit, submit_noop).
LEMMA SubmitKeeps ==
    ASSUME TypeOK, MapInv, NEW r \in Readers, Submit(r)
    PROVE  MapInv'
<1> DEFINE m == reader[r].msg
<1>1. m \in Message /\ Rendering(r, m) /\ phase = "up" /\ claim[m].run # 0
  <2>1. m \in Message /\ Rendering(r, m)
    BY ReaderHolds DEF Submit, Rendering
  <2> QED BY <2>1 DEF MapInv, Rendering, Idle
<1>2. \A q \in Readers : reader'[q] = Idle \/ reader'[q] = reader[q]
  BY <1>1, ReaderMoves DEF Submit
<1>3. UNCHANGED <<claim, record, post, start>>
  BY DEF Submit
<1>4. CASE carry[m] # NoJob
  <2>1. UNCHANGED bridge
    BY <1>3, <1>4 DEF Submit, bridge
  <2> QED BY <1>1, <1>2, <1>3, <2>1, RowsUntouched DEF Rendering, Idle
<1>5. CASE carry[m] = NoJob
  <2>1. PICK state \in {"waiting", "accounted"} :
          carry' = [carry EXCEPT ![m] = [state |-> state, link |-> claim[m].run]]
    BY <1>5 DEF Submit
  <2>2. carry'[m].state = state /\ carry'[m].link = claim[m].run
    BY <1>1, <2>1 DEF TypeOK
  <2>3. \A n \in Message : n # m => carry'[n] = carry[n]
    BY <2>1 DEF TypeOK
  <2>4. \A q \in Readers, n \in Message : Rendering(q, n)' => Rendering(q, n)
    BY <1>2 DEF Rendering, Idle
  <2> QED BY <1>1, <1>3, <2>2, <2>3, <2>4 DEF MapInv, start
<1> QED BY <1>4, <1>5

\* A job that is under way stays on its claim (send_job).
LEMMA CarryKeeps == TypeOK /\ MapInv /\ Carrying => MapInv'
<1> SUFFICES ASSUME TypeOK, MapInv, NEW m \in Message,
                    Send(m) \/ Answer(m) \/ AttachTelegram(m) \/ CarryDone(m)
             PROVE  MapInv'
  BY DEF Carrying
<1>1. PICK state \in JobStates \ {"none"} :
        Moves(m, state) /\ (state = "done" => CarryDone(m)) /\ (state = "placed" => AttachTelegram(m))
  BY DEF Send, Answer, AttachTelegram, CarryDone, JobStates
<1>2. /\ carry'[m] = [state |-> state, link |-> carry[m].link]
      /\ \A n \in Message : n # m => carry'[n] = carry[n]
  BY <1>1, JobMoves
<1>3. carry[m] # NoJob /\ claim[m].run = carry[m].link /\ claim[m].run # 0
  <2>1. carry[m].state # "none"
    BY DEF Send, Answer, AttachTelegram, CarryDone
  <2>2. carry[m] # NoJob
    BY <2>1 DEF NoJob
  <2> QED BY <2>2 DEF MapInv
<1>4. /\ \A n \in Message : claim'[n].run = claim[n].run /\ (claim[n].placed => claim'[n].placed)
      /\ state = "placed" => claim'[m].placed
  <2>1. CASE AttachTelegram(m)
    <3>1. claim' = [claim EXCEPT ![m].placed = TRUE]
      BY <1>3, <2>1 DEF AttachTelegram
    <3> QED BY <3>1, ClaimPlaced
  <2>2. CASE ~AttachTelegram(m)
    BY <1>1, <2>2 DEF Send, Answer, CarryDone
  <2> QED BY <2>1, <2>2
<1>5. state = "done" => claim'[m].placed
  BY <1>1, <1>4 DEF CarryDone, MapInv
<1>6. UNCHANGED <<record, post, reader, start>>
  BY DEF Send, Answer, AttachTelegram, CarryDone
<1>7. \A n \in Message : carry'[n] # NoJob =>
        carry'[n].state # "none" /\ claim'[n].run = carry'[n].link /\ claim'[n].run # 0
  BY <1>1, <1>2, <1>3, <1>4 DEF MapInv
<1>8. \A n \in Message : carry'[n].state \in {"placed", "done"} => claim'[n].placed
  BY <1>2, <1>4, <1>5 DEF MapInv
<1>9. \A u \in Own : u \in Message
  BY DEF Message
<1> QED BY <1>4, <1>6, <1>7, <1>8, <1>9 DEF MapInv, Rendering, start

\* The owner's side: an id goes onto the row only where no claim has it, and stays.
LEMMA PostKeeps == TypeOK /\ MapInv /\ Posting => MapInv'
<1> SUFFICES ASSUME TypeOK, MapInv, NEW u \in Own,
                    \/ RecordFromTelegram(u) \/ SubmitPost(u) \/ SendPost(u)
                    \/ PostLands(u) \/ PostFails(u) \/ AttachMax(u) \/ PostDone(u)
             PROVE  MapInv'
  BY DEF Posting
<1>1. UNCHANGED <<claim, carry, reader, start>>
  BY DEF RecordFromTelegram, SubmitPost, SendPost, PostLands, PostFails, AttachMax, PostDone
<1>2. \A w \in Own : record[w] = "attached" => record'[w] = "attached"
  BY DEF RecordFromTelegram, SubmitPost, SendPost, PostLands, PostFails, AttachMax, PostDone, TypeOK
<1>3. \A w \in Own : w # u => post'[w] = post[w]
  BY DEF RecordFromTelegram, SubmitPost, SendPost, PostLands, PostFails, AttachMax, PostDone,
     Posts, TypeOK
<1>4. post'[u] \in {"placed", "done"} => record'[u] = "attached" /\ claim[u].run = 0
  <2>1. CASE RecordFromTelegram(u)
    BY <1>2, <2>1 DEF RecordFromTelegram, MapInv
  <2>2. CASE SubmitPost(u) \/ SendPost(u) \/ PostLands(u) \/ PostFails(u)
    <3>1. post'[u] \notin {"placed", "done"}
      BY <2>2 DEF SubmitPost, SendPost, PostLands, PostFails, Posts, TypeOK
    <3> QED BY <3>1
  <2>3. CASE AttachMax(u)
    BY <2>3 DEF AttachMax, Posts, TypeOK
  <2>4. CASE PostDone(u)
    BY <2>4 DEF PostDone, MapInv
  <2> QED BY <2>1, <2>2, <2>3, <2>4
<1> QED BY <1>1, <1>2, <1>3, <1>4 DEF MapInv, Rendering, start

\* requeue_inflight makes open questions of what was under way, and no job of nothing.
LEMMA BeginKeeps == TypeOK /\ MapInv /\ Begin => MapInv'
<1> SUFFICES ASSUME TypeOK, MapInv, Begin PROVE MapInv'
  OBVIOUS
<1>1. \A state \in JobStates : /\ Recovered(state) = "none" <=> state = "none"
                               /\ Recovered(state) \in {"placed", "done"} => Recovered(state) = state
  BY DEF Recovered, Midway
<1>2. ASSUME NEW m \in Message
      PROVE  /\ carry'[m].state = Recovered(carry[m].state)
             /\ carry'[m].link = carry[m].link
             /\ carry[m].state \in JobStates
             /\ carry[m] = NoJob => carry'[m] = NoJob
  <2>1. carry[m] \in Job /\ carry'[m] = [carry[m] EXCEPT !.state = Recovered(@)]
    BY DEF Begin, TypeOK
  <2>2. carry'[m].state = Recovered(carry[m].state) /\ carry'[m].link = carry[m].link
    BY <2>1 DEF Job
  <2>3. Recovered("none") = "none"
    BY DEF Recovered, Midway
  <2> QED BY <2>1, <2>2, <2>3 DEF NoJob, Job
<1>3. \A u \in Own : post'[u] = Recovered(post[u]) /\ post[u] \in JobStates
  BY DEF Begin, TypeOK
<1>4. UNCHANGED <<claim, record, reader>> /\ phase = "down" /\ phase' = "releasing" /\ run' # 0
  BY DEF Begin, Bounds, TypeOK
<1>5. \A m \in Message : carry'[m] # NoJob =>
        carry'[m].state # "none" /\ claim'[m].run = carry'[m].link /\ claim'[m].run # 0
  BY <1>1, <1>2, <1>4 DEF MapInv
<1>6. \A m \in Message : carry'[m].state \in {"placed", "done"} => claim'[m].placed
  BY <1>1, <1>2, <1>4 DEF MapInv
<1>7. \A u \in Own : post'[u] \in {"placed", "done"} => record'[u] = "attached" /\ claim'[u].run = 0
  BY <1>1, <1>3, <1>4 DEF MapInv
<1> QED BY <1>4, <1>5, <1>6, <1>7 DEF MapInv, Rendering

\* What is released has no job, and no handler is at work on it.
LEMMA ReleaseKeeps ==
    ASSUME TypeOK, MapInv, NEW m \in Message, Release(m)
    PROVE  MapInv'
<1>1. /\ phase = "releasing" /\ carry[m] = NoJob
      /\ UNCHANGED <<record, carry, post, reader, start>>
  BY DEF Release, Stranded
<1>2. claim'[m].run = 0 /\ \A n \in Message : n # m => claim'[n] = claim[n]
  BY DEF Release, TypeOK, Unclaimed
<1>3. ASSUME NEW r \in Readers, NEW n \in Message PROVE ~Rendering(r, n)
  <2>1. reader[r].pc = "idle"
    BY <1>1 DEF MapInv, Idle
  <2> QED BY <2>1 DEF Rendering
<1>4. carry[m].state \notin {"placed", "done"}
  BY <1>1 DEF NoJob
<1>5. \A u \in Own : u \in Message
  BY DEF Message
<1>6. \A u \in Own : claim[u].run = 0 => claim'[u].run = 0
  BY <1>2, <1>5
<1> QED BY <1>1, <1>2, <1>3, <1>4, <1>6 DEF MapInv, Rendering, start

\* Every step keeps jobs and rows together.
LEMMA StepKeeps == TypeOK /\ MapInv /\ [Next]_vars => MapInv'
<1> SUFFICES ASSUME TypeOK, MapInv, [Next]_vars PROVE MapInv'
  OBVIOUS
<1>1. CASE Started
  BY <1>1 DEF Started, MapInv, Rendering, bridge
<1>2. CASE Crash
  BY <1>2 DEF Crash, MapInv, Rendering, bridge, Idle
<1>3. CASE UNCHANGED vars
  BY <1>3, RowsUntouched DEF vars
<1> QED BY <1>1, <1>2, <1>3, AskingKeeps, ClaimKeeps, SubmitKeeps, CarryKeeps, PostKeeps,
           BeginKeeps, ReleaseKeeps
    DEF Next, Handle, Starting

\* Nothing is claimed and nothing is in hand at first.
LEMMA InitKeeps == Init => MapInv
  BY DEF Init, MapInv, Rendering, Idle, NoJob

\* A delivered message can be replied to, edited and deleted: the mapping has the
\* remote id by the time the job is done, in either direction (settle_*_delivery_mapping).
THEOREM MappedWhenDelivered == Spec => []DeliveredIsMapped
<1>1. MapInv => DeliveredIsMapped
  BY DEF MapInv, DeliveredIsMapped
<1> QED BY <1>1, TypeCorrect, InitKeeps, StepKeeps, PTL DEF Spec

\* An echo that slipped through leaves its send an open question, never a delivered
\* message that is mapped a second time as a claim (idx_message_map_max, settle).
THEOREM EchoIsRecognised == Spec => []SettledEchoIsRecognised
<1>1. MapInv => SettledEchoIsRecognised
  BY DEF MapInv, SettledEchoIsRecognised
<1> QED BY <1>1, TypeCorrect, InitKeeps, StepKeeps, PTL DEF Spec

-----------------------------------------------------------------------------
(* What is let go, and what can be *)

\* Only the release takes a claim away; every other write keeps the run on it.
LEMMA ClaimsGo ==
    ASSUME TypeOK, MapInv, [Next]_vars, NEW m \in Message, claim'[m].run # claim[m].run
    PROVE  \/ /\ Release(m) /\ claim'[m].run = 0
           \/ /\ claim[m].run = 0 /\ claim'[m].run = run /\ carry[m] = NoJob
              /\ Up /\ UNCHANGED <<carry, start>>
<1>1. claim' # claim
  OBVIOUS
<1>2. ASSUME NEW r \in Readers, ClaimFromMax(r)
      PROVE  /\ claim[m].run = 0 /\ claim'[m].run = run /\ carry[m] = NoJob
             /\ Up /\ UNCHANGED <<carry, start>>
  <2>1. /\ ~Known(reader[r].msg) /\ UNCHANGED <<carry, start>>
        /\ claim' = [claim EXCEPT ![reader[r].msg] = [run |-> run, placed |-> FALSE]]
    BY <1>1, <1>2 DEF ClaimFromMax
  <2>2. m = reader[r].msg
    BY <2>1 DEF TypeOK
  <2>3. claim[m].run = 0 /\ claim'[m].run = run
    BY <2>1, <2>2 DEF Known, TypeOK
  <2>4. carry[m] = NoJob /\ Up
    <3>1. reader[r] # Idle
      BY <1>2, ReaderHolds DEF ClaimFromMax
    <3> QED BY <2>3, <3>1 DEF MapInv, Up
  <2> QED BY <2>1, <2>3, <2>4
<1>3. ASSUME NEW n \in Message, AttachTelegram(n) PROVE FALSE
  BY <1>1, <1>3, ClaimPlaced DEF AttachTelegram
<1>4. ASSUME NEW n \in Message, Release(n) PROVE Release(m) /\ claim'[m].run = 0
  BY <1>4 DEF Release, TypeOK, Unclaimed
<1> QED BY <1>1, <1>2, <1>3, <1>4 DEF Next, Write, Event, WalkTail, FetchHistory, NextOfTail,
        Handle, Ask, Submit, Fails, Carrying, Send, Answer, CarryDone, Posting,
        RecordFromTelegram, SubmitPost, SendPost, PostLands, PostFails, AttachMax, PostDone,
        Starting, Begin, Started, Crash, vars, bridge

\* A claim is let go only when nothing was, or could still be, sent under it
\* (_release_unsent_claims, unsent_claims).
THEOREM NothingReleasedUnderAJob == Spec => ReleasedWasNeverSent
<1>1. TypeOK /\ MapInv /\ [Next]_vars
        => [\A m \in Message : claim[m].run # 0 /\ claim'[m].run = 0
                               => carry[m] = NoJob /\ carry'[m] = NoJob]_vars
  <2> SUFFICES ASSUME TypeOK, MapInv, [Next]_vars,
                      NEW m \in Message, claim[m].run # 0, claim'[m].run = 0
               PROVE  carry[m] = NoJob /\ carry'[m] = NoJob
    OBVIOUS
  <2>1. Release(m)
    BY ClaimsGo
  <2> QED BY <2>1 DEF Release, Stranded
<1> QED BY <1>1, TypeCorrect, InitKeeps, StepKeeps, PTL DEF Spec, ReleasedWasNeverSent

\* Where the claims without a job lie: in the run that is on, or, while a start
\* releases them, in the one that ended (previous_start_at, note_start).
Bound == IF phase = "releasing" THEN since ELSE run

Unsettled(m) == claim[m].run # 0 /\ ~claim[m].placed /\ carry[m] = NoJob

ReachInv ==
    /\ marker = run
    /\ phase = "releasing" => run = since + 1
    /\ \A m \in Message : claim[m].run <= Bound
    /\ \A m \in Message : Unsettled(m) => claim[m].run = Bound

\* A job once made is never unmade, and an id once placed stays on its claim.
LEMMA SettledStays ==
    ASSUME TypeOK, MapInv, [Next]_vars, NEW m \in Message,
           claim[m].run # 0, claim'[m].run = claim[m].run, ~Unsettled(m)
    PROVE  ~Unsettled(m)'
<1>1. CASE carry[m] # NoJob
  <2>1. carry[m].state # "none" /\ carry[m].state \in JobStates
    BY <1>1 DEF MapInv, TypeOK, Job
  <2>2. ASSUME NEW n \in Message, NEW state \in JobStates \ {"none"}, Moves(n, state)
        PROVE  carry'[m].state # "none"
    <3>1. /\ carry'[n] = [state |-> state, link |-> carry[n].link]
          /\ \A o \in Message : o # n => carry'[o] = carry[o]
      BY <2>2, JobMoves
    <3>2. CASE n = m
      BY <3>1, <3>2
    <3>3. CASE n # m
      BY <2>1, <3>1, <3>3
    <3> QED BY <3>2, <3>3
  <2>3. ASSUME Carrying PROVE carry'[m].state # "none"
    BY <2>2, <2>3 DEF Carrying, Send, Answer, AttachTelegram, CarryDone, JobStates
  <2>4. ASSUME Begin PROVE carry'[m].state # "none"
    <3>1. carry'[m].state = Recovered(carry[m].state)
      BY <2>4 DEF Begin, TypeOK, Job
    <3> QED BY <2>1, <3>1 DEF Recovered
  <2>5. ASSUME NEW r \in Readers, Submit(r) PROVE carry'[m].state # "none"
    BY <1>1, <2>1, <2>5 DEF Submit, TypeOK
  <2>6. ASSUME UNCHANGED carry PROVE carry'[m].state # "none"
    BY <2>1, <2>6
  <2>7. carry'[m].state # "none"
    BY <2>3, <2>4, <2>5, <2>6 DEF Next, Write, Event, WalkTail, FetchHistory, NextOfTail,
       Handle, Ask, ClaimFromMax, Fails, Posting,
       RecordFromTelegram, SubmitPost, SendPost, PostLands, PostFails, AttachMax, PostDone,
       Starting, Release, Started, Crash, vars, bridge
  <2> QED BY <2>7 DEF Unsettled, NoJob
<1>2. CASE claim[m].placed
  <2>1. ASSUME UNCHANGED claim PROVE claim'[m].placed
    BY <1>2, <2>1
  <2>2. ASSUME NEW r \in Readers, ClaimFromMax(r) PROVE claim'[m] = claim[m]
    BY <2>2 DEF ClaimFromMax, Known, TypeOK
  <2>3. ASSUME NEW n \in Message, AttachTelegram(n) PROVE claim'[m].placed
    BY <1>2, <2>3, ClaimPlaced DEF AttachTelegram
  <2>4. ASSUME NEW n \in Message, Release(n) PROVE claim'[m] = claim[m]
    BY <1>2, <2>4 DEF Release, Stranded, TypeOK
  <2>5. claim'[m].placed
    BY <1>2, <2>1, <2>2, <2>3, <2>4 DEF Next, Write, Event, WalkTail, FetchHistory, NextOfTail,
       Handle, Ask, Submit, Fails, Carrying, Send, Answer, CarryDone, Posting,
       RecordFromTelegram, SubmitPost, SendPost, PostLands, PostFails, AttachMax, PostDone,
       Starting, Begin, Started, Crash, vars, bridge
  <2> QED BY <2>5 DEF Unsettled
<1> QED BY <1>1, <1>2 DEF Unsettled

\* A step that moves neither bound writes claims of the run that is on, or none.
LEMMA ReachUndisturbed ==
    ASSUME TypeOK, MapInv, ReachInv, [Next]_vars, Bound' = Bound,
           marker' = run', phase' = "releasing" => run' = since' + 1
    PROVE  ReachInv'
<1>1. ASSUME NEW m \in Message, claim'[m].run # claim[m].run
      PROVE  claim'[m].run = 0 \/ claim'[m].run = Bound
  BY <1>1, ClaimsGo DEF Bound, Up
<1>2. 0 <= Bound
  BY DEF Bound, TypeOK
<1>3. \A m \in Message : (claim[m].run <= Bound)'
  BY <1>1, <1>2 DEF ReachInv, TypeOK, Bound
<1>4. ASSUME NEW m \in Message, Unsettled(m)' PROVE (claim[m].run = Bound)'
  BY <1>1, <1>4, SettledStays DEF ReachInv, Unsettled
<1> QED BY <1>3, <1>4 DEF ReachInv

\* Every step keeps claims in reach, if a start is not cut short.
LEMMA StepReaches ==
    ASSUME StartsWhole, TypeOK, MapInv, ReachInv, [Next]_vars
    PROVE  ReachInv'
<1>1. CASE UNCHANGED start
  BY <1>1, ReachUndisturbed DEF start, Bound, ReachInv
<1>2. CASE Begin
  BY <1>2, ReachUndisturbed DEF Begin, Bounds, Bound, ReachInv, TypeOK
<1>3. CASE Crash
  BY <1>3, ReachUndisturbed DEF Crash, Up, Bound, ReachInv
<1>4. CASE Started
  <2>1. /\ UNCHANGED <<claim, carry, run, marker, since>> /\ phase = "releasing" /\ phase' = "up"
        /\ since # 0 => Stranded = {}
    BY <1>4 DEF Started, bridge
  <2>2. \A m \in Message : ~Unsettled(m)
    BY <2>1 DEF ReachInv, Bound, Unsettled, Stranded, TypeOK
  <2>3. \A m \in Message : claim[m].run <= run
    BY <2>1 DEF ReachInv, Bound, TypeOK, Claim
  <2> QED BY <2>1, <2>2, <2>3 DEF ReachInv, Bound, Unsettled
<1> QED BY <1>1, <1>2, <1>3, <1>4 DEF Next, Write, Event, WalkTail, FetchHistory, NextOfTail,
        Handle, Ask, ClaimFromMax, Submit, Fails, Carrying, Send, Answer, AttachTelegram,
        CarryDone, Posting, RecordFromTelegram, SubmitPost, SendPost, PostLands, PostFails,
        AttachMax, PostDone, Starting, Release, vars

\* Whatever a run abandons, the release that follows it will find, as long as no
\* process dies while it is starting (previous_start_at, unsent_claims).
THEOREM AbandonedIsFound == ASSUME StartsWhole PROVE Spec => []AbandonedIsInReach
<1>1. Init => ReachInv
  BY RunsCount DEF Init, ReachInv, Bound, Unsettled, Unclaimed, NoJob
<1>2. TypeOK /\ MapInv /\ ReachInv /\ [Next]_vars => ReachInv'
  BY StepReaches
<1>3. TypeOK /\ ReachInv => AbandonedIsInReach
  BY DEF TypeOK, ReachInv, AbandonedIsInReach, Abandoned, Unsettled, Bound
<1> QED BY <1>1, <1>2, <1>3, TypeCorrect, InitKeeps, StepKeeps, PTL DEF Spec
=============================================================================
