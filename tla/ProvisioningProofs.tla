-------------------------- MODULE ProvisioningProofs --------------------------
(***************************************************************************)
(* What holds of making, mending and taking apart one contact's bridge,    *)
(* for any number of bots, faults and requests of the owner.  Until the    *)
(* owner, a second reconciliation or somebody in @BotFather changes what a *)
(* walk is working on (crossed), a walk and a removal exclude each other:  *)
(* a walk knows what its steps have left in the register, the journal and  *)
(* bots.env (WalkInv), and a removal takes names away only behind the      *)
(* thing they name (RemovalInv).  The four properties follow.              *)
(***************************************************************************)
EXTENDS Provisioning, TLAPS

\* A process that is down holds nothing; a walk that is over has left nothing.
DownInv ==
    /\ ~up => /\ live = NotLive /\ ghosts = {} /\ walk = NoWalk
              /\ recon = "idle" /\ removal = NoRemoval
    /\ walk.pc = "idle" => walk = NoWalk
    /\ walk.pc = "starting" => walk.got # 0

EntrySet == [state : {"none"} \cup Resumable \cup Terminal, bot : 0..MaxBots, saved : BOOLEAN]
RowSet == [state : {"none", "provisioning", "active", "disabled"}, bot : 0..MaxBots]
LiveSet == [bot : 0..MaxBots, polls : BOOLEAN]
WalkSet == [pc : WalkStates, kind : {"none", "chosen", "resuming"}, had : BOOLEAN,
            got : 0..MaxBots, id : 0..MaxBots, known : 0..MaxBots, own : BOOLEAN]

\* What a removal may have yet to do: what is left of one of the three plans.
Moves == {"stop", "disable", "forget", "delete", "unbind", "purge", "unset"}
Remainders == {r \in Seq(Moves) :
                 \E plan \in Plans : \E n \in 0..Len(plan) : r = SubSeq(plan, n + 1, Len(plan))}

-----------------------------------------------------------------------------
(* Types *)

\* The bots are numbered from one; nobody's is number zero, the stranger's is above.
LEMMA Numbers ==
    /\ MaxBots \in Nat \ {0} /\ MaxFaults \in Nat /\ MaxActs \in Nat
    /\ 0 \in 0..MaxBots /\ 0 \notin Ours /\ Stranger \notin Ours /\ Stranger # 0
    /\ Ours \subseteq 0..MaxBots /\ 0..MaxBots = Ours \cup {0}
    /\ 0..Stranger = Ours \cup {0, Stranger}
  BY ProvisioningAssumption DEF Ours, Stranger

\* The states of the journal, by name (AttemptState).
LEMMA States ==
    /\ {"none", "pending", "awaiting", "bot_created", "token_saved", "worker_started", "start_sent",
        "failed_retryable", "healthy", "failed_permanent", "abandoned"}
         = {"none"} \cup Resumable \cup Terminal
    /\ "none" \notin Resumable \cup Terminal
  BY DEF Resumable, Terminal

\* The constants of the state are typed.
LEMMA Blanks ==
    /\ NoEntry \in EntrySet /\ NoRow \in RowSet /\ NotLive \in LiveSet /\ NoWalk \in WalkSet
  BY Numbers, States DEF NoEntry, NoRow, NotLive, NoWalk, EntrySet, RowSet, LiveSet, WalkSet, WalkStates

\* The three plans are sequences of a removal's moves.
LEMMA PlansAreSequences == \A plan \in Plans : plan \in Seq(Moves)
<1>1. Disconnect \in Seq(Moves)
  BY DEF Disconnect, Moves
<1>2. DeleteBot \in Seq(Moves)
  BY DEF DeleteBot, Moves
<1>3. TearDown \in Seq(Moves)
  BY DEF TearDown, Moves
<1> QED BY <1>1, <1>2, <1>3 DEF Plans

\* What is left of a plan is taken from its head on (disconnect, delete_bot, tear_down).
LEMMA PlansLast ==
    /\ NoRemoval \in Remainders /\ Plans \subseteq Remainders
    /\ \A r \in Remainders : r # NoRemoval => Tail(r) \in Remainders
<1>2. \A plan \in Plans : plan \in Seq(Moves)
  BY PlansAreSequences
<1>3. ASSUME NEW plan \in Plans PROVE plan \in Remainders /\ NoRemoval \in Remainders
  <2>1. plan \in Seq(Moves) /\ SubSeq(plan, 0 + 1, Len(plan)) = plan /\ 0 \in 0..Len(plan)
    BY <1>2
  <2>2. SubSeq(plan, Len(plan) + 1, Len(plan)) = << >> /\ Len(plan) \in 0..Len(plan)
    BY <2>1
  <2> QED BY <2>1, <2>2 DEF Remainders, NoRemoval
<1>4. ASSUME NEW r \in Remainders, r # NoRemoval PROVE Tail(r) \in Remainders
  <2>0. PICK plan \in Plans : \E n \in 0..Len(plan) : r = SubSeq(plan, n + 1, Len(plan))
    BY DEF Remainders
  <2>1. PICK n \in 0..Len(plan) : r = SubSeq(plan, n + 1, Len(plan))
    BY <2>0
  <2>2. plan \in Seq(Moves) /\ r \in Seq(Moves) /\ r # << >>
    BY <1>2, <1>4 DEF Remainders, NoRemoval
  <2>3. n < Len(plan) /\ Tail(r) = SubSeq(plan, (n + 1) + 1, Len(plan))
    BY <2>1, <2>2
  <2>4. n + 1 \in 0..Len(plan) /\ Tail(r) \in Seq(Moves)
    BY <2>2, <2>3
  <2> QED BY <2>3, <2>4 DEF Remainders
<1>5. Disconnect \in Plans
  BY DEF Plans
<1> QED BY <1>3, <1>4, <1>5

\* The type invariant, by the name of each set of values.
Typed ==
    /\ holder \in 0..Stranger /\ made \in 0..MaxBots
    /\ entry \in EntrySet /\ token \in 0..MaxBots /\ row \in RowSet
    /\ up \in BOOLEAN /\ live \in LiveSet /\ ghosts \subseteq Ours
    /\ walk \in WalkSet /\ recon \in {"idle", "asking"} /\ removal \in Remainders
    /\ faults \in 0..MaxFaults /\ acts \in 0..MaxActs
    /\ crossed \in BOOLEAN /\ upset \subseteq {"gone", "bound"}

\* Typed names the sets of TypeOK: the two say the same.
LEMMA TypeParts == TypeOK <=> Typed
<1>1. \A plan \in Plans : \A n \in 0..Len(plan) : SubSeq(plan, n + 1, Len(plan)) \in Seq(Moves)
  BY PlansAreSequences
<1>2. (\E plan \in Plans : \E n \in 0..Len(plan) : removal = SubSeq(plan, n + 1, Len(plan)))
        <=> removal \in Remainders
  BY <1>1 DEF Remainders
<1> QED BY <1>2 DEF TypeOK, Typed, EntrySet, RowSet, LiveSet, WalkSet

\* What is counted stays within its bound.
LEMMA Counted ==
    ASSUME Typed
    PROVE  /\ Fault => faults' \in 0..MaxFaults
           /\ Act => acts' \in 0..MaxActs
  BY Numbers DEF Typed, Fault, Act

\* A walk that goes on to its next step, or ends.
LEMMA WalkGoes ==
    ASSUME Typed
    PROVE  /\ \A pc \in WalkStates : Goes(pc) =>
                 /\ walk' \in WalkSet /\ walk'.pc = pc
                 /\ walk'.kind = walk.kind /\ walk'.had = walk.had /\ walk'.got = walk.got
                 /\ walk'.id = walk.id /\ walk'.known = walk.known /\ walk'.own = walk.own
           /\ Ends => walk' = NoWalk /\ walk' \in WalkSet
  BY Blanks DEF Typed, WalkSet, Goes, Ends

\* A note in the journal keeps an entry an entry, and never makes one out of none.
LEMMA Notes ==
    ASSUME Typed, NEW st \in Resumable \cup Terminal
    PROVE  /\ [entry EXCEPT !.state = st] \in EntrySet
           /\ [entry EXCEPT !.state = st].state = st
           /\ Note(st) => entry' \in EntrySet /\ entry.state # "none" /\ entry'.state # "none"
           /\ Fails(st) => /\ walk' = NoWalk /\ walk' \in WalkSet /\ entry' \in EntrySet
                           /\ entry.state # "none" => entry'.state # "none"
<1>1. [entry EXCEPT !.state = st] \in EntrySet /\ [entry EXCEPT !.state = st].state = st
  BY DEF Typed, EntrySet
<1>2. st # "none" /\ entry \in EntrySet
  BY States DEF Typed
<1>3. Fails(st) => walk' = NoWalk /\ walk' \in WalkSet
  BY WalkGoes DEF Fails
<1> QED BY <1>1, <1>2, <1>3 DEF Note, Fails

\* A note of a walk: it goes on, or ends when its entry is gone.
LEMMA WalkNotesMoves ==
    ASSUME Typed, NEW new \in EntrySet, new.state # "none", NEW pc \in WalkStates, WalkNotes(new, pc)
    PROVE  /\ entry' \in EntrySet /\ walk' \in WalkSet
           /\ entry.state = "none" => entry' = entry /\ walk' = NoWalk
           /\ entry.state # "none" => entry' = new /\ Goes(pc)
  BY WalkGoes DEF WalkNotes, Typed

\* A walk that sets out does it from the entry it read, and alone.
LEMMA SetsOutMoves ==
    ASSUME Typed, NEW e \in EntrySet, e.state # "none", NEW kind \in {"chosen", "resuming"},
           SetsOut(e, kind)
    PROVE  /\ entry' \in EntrySet /\ entry'.state # "none" /\ walk' \in WalkSet
           /\ \/ walk' = walk
              \/ walk.pc = "idle" /\ walk'.pc = "checking" /\ walk'.kind = kind
<1>1. [e EXCEPT !.state = "pending"] \in EntrySet /\ [e EXCEPT !.state = "pending"].state = "pending"
  BY States DEF EntrySet
<1>2. [NoWalk EXCEPT !.pc = "checking", !.kind = kind, !.had = e.saved] \in WalkSet
  BY Blanks DEF WalkSet, EntrySet, WalkStates
<1>3. /\ [NoWalk EXCEPT !.pc = "checking", !.kind = kind, !.had = e.saved].pc = "checking"
      /\ [NoWalk EXCEPT !.pc = "checking", !.kind = kind, !.had = e.saved].kind = kind
  BY DEF NoWalk
<1> QED BY <1>1, <1>2, <1>3 DEF SetsOut, Typed

\* The entry the owner's choice begins from is there.
LEMMA BegunMoves == Typed => Begun \in EntrySet /\ Begun.state # "none"
<1> SUFFICES ASSUME Typed PROVE Begun \in EntrySet /\ Begun.state # "none"
  OBVIOUS
<1>1. entry \in EntrySet
  BY DEF Typed
<1>2. /\ [NoEntry EXCEPT !.state = "pending"] \in EntrySet /\ [NoEntry EXCEPT !.state = "pending"].state = "pending"
      /\ [entry EXCEPT !.state = "pending"] \in EntrySet /\ [entry EXCEPT !.state = "pending"].state = "pending"
  BY <1>1, Blanks, States DEF EntrySet
<1>3. CASE entry.state = "none"
  BY <1>2, <1>3 DEF Begun
<1>4. CASE entry.state \in {"failed_permanent", "abandoned"}
  BY <1>2, <1>4 DEF Begun
<1>5. CASE entry.state \notin {"none", "failed_permanent", "abandoned"}
  BY <1>1, <1>5 DEF Begun
<1> QED BY <1>3, <1>4, <1>5

\* A row that is written in provisioning.
LEMMA UpsertMoves ==
    ASSUME Typed, NEW bot \in 0..MaxBots, Upsert(bot)
    PROVE  /\ row' \in RowSet /\ row'.state = "provisioning"
           /\ row'.bot = (IF bot = 0 THEN row.bot ELSE bot)
  BY DEF Typed, Upsert, RowSet

\* What a step leaves of a walk: nothing, or one that is under way.
WalkLeft ==
    walk' = NoWalk \/ walk'.pc \notin {"idle", "starting"} \/ (walk'.pc = "starting" /\ walk'.got # 0)

\* The walk's steps up to the saved token keep the types.
LEMMA BotStepsTyped ==
    ASSUME Typed, CheckUsername \/ CreateBot \/ ForgetOldBot \/ NoteCreated \/ SaveToken \/ NoteSaved
    PROVE  Typed' /\ WalkLeft
<1> USE DEF disk, process, bounds, history
<1>0. /\ holder \in 0..Stranger /\ made \in 0..MaxBots /\ entry \in EntrySet /\ row \in RowSet
      /\ live \in LiveSet /\ walk \in WalkSet /\ token \in 0..MaxBots /\ faults \in 0..MaxFaults
  BY DEF Typed
<1>1. /\ \A pc \in {"creating", "launching", "unbinding", "made", "saving", "saved"} :
              pc \in WalkStates \ {"idle", "starting"}
      /\ {"failed_permanent", "failed_retryable", "awaiting", "bot_created", "token_saved"}
            \subseteq Resumable \cup Terminal
      /\ NoWalk \in WalkSet /\ NotLive \in LiveSet
  BY Blanks DEF WalkStates, Resumable, Terminal
<1>2. CASE CheckUsername
  <2>1. /\ entry' \in EntrySet /\ walk' \in WalkSet /\ WalkLeft
        /\ faults' \in 0..MaxFaults
    <3>1. CASE Fails("failed_retryable") \/ Fails("failed_permanent")
      BY <1>0, <1>1, <1>2, <3>1, Notes, Counted DEF CheckUsername, WalkLeft
    <3>2. CASE WalkNotes([entry EXCEPT !.state = "awaiting"], "creating") /\ UNCHANGED faults
      <4>1. /\ [entry EXCEPT !.state = "awaiting"] \in EntrySet
            /\ [entry EXCEPT !.state = "awaiting"].state # "none"
        BY <1>1, Notes, States
      <4>2. entry' \in EntrySet /\ walk' \in WalkSet
        BY <1>1, <3>2, <4>1, WalkNotesMoves
      <4>3. walk' = NoWalk \/ walk'.pc = "creating"
        BY <1>1, <3>2, <4>1, WalkNotesMoves, WalkGoes
      <4> QED BY <1>0, <3>2, <4>2, <4>3 DEF WalkLeft
    <3>3. CASE /\ UNCHANGED <<entry, faults>>
               /\ walk' = [walk EXCEPT !.pc = IF walk.had THEN "launching" ELSE "creating"]
      <4>1. walk' \in WalkSet /\ walk'.pc \in {"launching", "creating"}
        BY <1>0, <1>1, <3>3 DEF WalkSet
      <4> QED BY <1>0, <3>3, <4>1 DEF WalkLeft
    <3> QED BY <1>2, <3>1, <3>2, <3>3, Zenon DEF CheckUsername
  <2> QED BY <1>2, <2>1 DEF CheckUsername, Typed
<1>3. CASE CreateBot
  <2>1. /\ holder' \in 0..Stranger /\ made' \in 0..MaxBots
    BY <1>0, <1>3, Numbers DEF CreateBot
  <2>2. entry' \in EntrySet /\ walk' \in WalkSet /\ WalkLeft
    <3>1. CASE \E st \in {"failed_retryable", "failed_permanent"} : Fails(st)
      BY <1>1, <3>1, Notes DEF WalkLeft
    <3>2. CASE UNCHANGED entry /\ \E g \in Ours : \E i \in {0, g} :
                 walk' = [walk EXCEPT !.pc = "unbinding", !.got = g, !.id = i]
      <4>1. walk' \in WalkSet /\ walk'.pc = "unbinding"
        BY <1>0, <1>1, <3>2, Numbers DEF WalkSet
      <4> QED BY <1>0, <3>2, <4>1 DEF WalkLeft
    <3>3. made' = made + 1 /\ made < MaxBots => made' \in Ours
      BY <1>0, Numbers DEF Ours
    <3> QED BY <1>3, <3>1, <3>2, <3>3 DEF CreateBot
  <2>3. faults' \in 0..MaxFaults
    BY <1>0, <1>3, Counted DEF CreateBot
  <2> QED BY <1>3, <2>1, <2>2, <2>3 DEF CreateBot, Typed
<1>4. CASE ForgetOldBot
  <2>1. walk' \in WalkSet /\ walk'.pc = "made"
    BY <1>1, <1>4, WalkGoes DEF ForgetOldBot
  <2>2. row' \in RowSet
    BY <1>0, <1>4, Numbers DEF ForgetOldBot, Unbound, RowSet
  <2>3. faults' \in 0..MaxFaults /\ upset' \subseteq {"gone", "bound"}
    BY <1>0, <1>4, Counted DEF ForgetOldBot, Typed
  <2> QED BY <1>4, <2>1, <2>2, <2>3 DEF ForgetOldBot, Typed, WalkLeft
<1>5. CASE NoteCreated
  <2> DEFINE new == [entry EXCEPT !.state = "bot_created", !.bot = IF walk.id = 0 THEN @ ELSE walk.id]
  <2>1. new \in EntrySet /\ new.state # "none"
    BY <1>0, <1>1, States DEF EntrySet, WalkSet
  <2>2. WalkNotes(new, "saving")
    BY <1>5 DEF NoteCreated
  <2> HIDE DEF new
  <2>3. entry' \in EntrySet /\ walk' \in WalkSet /\ (walk' = NoWalk \/ walk'.pc = "saving")
    BY <1>1, <2>1, <2>2, WalkNotesMoves, WalkGoes
  <2> QED BY <1>5, <2>3 DEF NoteCreated, Typed, WalkLeft
<1>6. CASE SaveToken
  <2>1. /\ token' \in 0..MaxBots /\ entry' \in EntrySet /\ walk' \in WalkSet
        /\ (walk' = NoWalk \/ walk'.pc = "saved") /\ faults' \in 0..MaxFaults
    <3>1. walk.got \in 0..MaxBots
      BY <1>0 DEF WalkSet
    <3> QED BY <1>0, <1>1, <1>6, <3>1, Notes, WalkGoes, Counted DEF SaveToken
  <2> QED BY <1>6, <2>1 DEF SaveToken, Typed, WalkLeft
<1>7. CASE NoteSaved
  <2> DEFINE new == [entry EXCEPT !.state = "token_saved", !.saved = TRUE]
  <2>1. new \in EntrySet /\ new.state # "none"
    BY <1>0, <1>1, States DEF EntrySet
  <2>2. WalkNotes(new, "launching")
    BY <1>7 DEF NoteSaved
  <2> HIDE DEF new
  <2>3. entry' \in EntrySet /\ walk' \in WalkSet /\ (walk' = NoWalk \/ walk'.pc = "launching")
    BY <1>1, <2>1, <2>2, WalkNotesMoves, WalkGoes
  <2>4. live' \in LiveSet
    BY <1>0, <1>1, <1>7 DEF NoteSaved, StopLive
  <2> QED BY <1>7, <2>3, <2>4 DEF NoteSaved, Typed, WalkLeft
<1> QED BY <1>2, <1>3, <1>4, <1>5, <1>6, <1>7

\* The walk's steps from the row to the verdict keep the types.
LEMMA WorkerStepsTyped ==
    ASSUME Typed, walk.pc = "starting" => walk.got # 0,
           \/ ReadRow \/ RecordRow \/ AddWorker \/ StartRunner \/ BindRow \/ NoteStarted
           \/ OpenChat \/ Verify \/ NoteHealthy
    PROVE  Typed' /\ WalkLeft
<1> USE DEF disk, process, bounds, history
<1>0. /\ holder \in 0..Stranger /\ entry \in EntrySet /\ row \in RowSet
      /\ live \in LiveSet /\ walk \in WalkSet /\ token \in 0..MaxBots /\ faults \in 0..MaxFaults
      /\ walk.got \in 0..MaxBots /\ walk.known \in 0..MaxBots
  BY DEF Typed, WalkSet
<1>1. /\ \A pc \in {"recording", "adding", "binding", "started", "opening", "verifying", "settling"} :
              pc \in WalkStates \ {"idle", "starting"}
      /\ "starting" \in WalkStates
      /\ {"failed_retryable", "worker_started", "start_sent", "healthy"} \subseteq Resumable \cup Terminal
      /\ NoWalk \in WalkSet /\ NotLive \in LiveSet
  BY Blanks DEF WalkStates, Resumable, Terminal
<1>2. CASE ReadRow
  <2>1. CASE token = 0
    BY <1>1, <1>2, <2>1, Notes DEF ReadRow, Typed, WalkLeft
  <2>2. CASE token # 0
    <3>1. walk' \in WalkSet /\ walk'.pc = "recording"
      BY <1>0, <1>1, <1>2, <2>2 DEF ReadRow, WalkSet, RowSet
    <3> QED BY <1>2, <2>2, <3>1 DEF ReadRow, Typed, WalkLeft
  <2> QED BY <2>1, <2>2
<1>3. CASE RecordRow
  <2>1. walk' \in WalkSet /\ walk'.pc = "adding" /\ row' \in RowSet /\ live' \in LiveSet
    BY <1>0, <1>1, <1>3, WalkGoes, UpsertMoves DEF RecordRow, StopLive
  <2> QED BY <1>3, <2>1 DEF RecordRow, Typed, WalkLeft
<1>4. CASE AddWorker
  <2>1. CASE Fails("failed_retryable")
    <3>1. live' \in LiveSet /\ faults' \in 0..MaxFaults
      <4>1. CASE /\ live.bot = 0 /\ Admits(walk.known)
                 /\ live' = [bot |-> token, polls |-> FALSE] /\ UNCHANGED faults
        BY <1>0, <4>1 DEF LiveSet
      <4>2. CASE UNCHANGED live /\ (UNCHANGED faults \/ Fault)
        BY <1>0, <4>2, Counted
      <4> QED BY <1>4, <4>1, <4>2 DEF AddWorker
    <3> QED BY <1>1, <1>4, <2>1, <3>1, Notes DEF AddWorker, Typed, WalkLeft
  <2>2. CASE /\ live.bot = 0 /\ Admits(walk.known)
             /\ live' = [bot |-> token, polls |-> FALSE]
             /\ walk' = [walk EXCEPT !.pc = "starting", !.got = token, !.own = TRUE]
             /\ UNCHANGED <<entry, faults>>
    <3>1. walk' \in WalkSet /\ walk'.pc = "starting" /\ walk'.got = token /\ token # 0
      BY <1>0, <1>1, <2>2 DEF WalkSet, Admits
    <3>2. live' \in LiveSet
      BY <1>0, <2>2 DEF LiveSet
    <3> QED BY <1>4, <2>2, <3>1, <3>2 DEF AddWorker, Typed, WalkLeft
  <2> QED BY <1>4, <2>1, <2>2 DEF AddWorker
<1>5. CASE StartRunner
  <2>1. walk' \in WalkSet /\ walk'.pc = "binding"
    BY <1>1, <1>5, WalkGoes DEF StartRunner
  <2>2. live' \in LiveSet
    BY <1>0, <1>5 DEF StartRunner, LiveSet
  <2>3. ghosts' \subseteq Ours
    BY <1>0, <1>5, Numbers DEF StartRunner, Typed
  <2> QED BY <1>5, <2>1, <2>2, <2>3 DEF StartRunner, Typed, WalkLeft
<1>6. CASE BindRow
  <2>1. walk' \in WalkSet /\ walk'.pc = "started" /\ row' \in RowSet
    BY <1>0, <1>1, <1>6, WalkGoes, UpsertMoves DEF BindRow
  <2> QED BY <1>6, <2>1 DEF BindRow, Typed, WalkLeft
<1>7. ASSUME NEW st \in {"worker_started", "start_sent"}, NEW pc \in {"opening", "verifying"},
             WalkNotes([entry EXCEPT !.state = st], pc)
      PROVE  entry' \in EntrySet /\ walk' \in WalkSet /\ WalkLeft
  <2> DEFINE new == [entry EXCEPT !.state = st]
  <2>1. new \in EntrySet /\ new.state # "none" /\ pc \in WalkStates
    BY <1>1, Notes, States
  <2>2. WalkNotes(new, pc)
    BY <1>7
  <2> HIDE DEF new
  <2> QED BY <2>1, <2>2, WalkNotesMoves, WalkGoes DEF WalkLeft
<1>8. CASE NoteStarted
  BY <1>7, <1>8 DEF NoteStarted, Typed
<1>9. CASE OpenChat
  <2>1. entry' \in EntrySet /\ walk' \in WalkSet /\ WalkLeft
    BY <1>1, <1>7, <1>9, Notes DEF OpenChat, WalkLeft
  <2>2. faults' \in 0..MaxFaults
    BY <1>0, <1>9, Counted DEF OpenChat
  <2> QED BY <1>9, <2>1, <2>2 DEF OpenChat, Typed
<1>10. CASE Verify
  <2>1. /\ entry' \in EntrySet /\ walk' \in WalkSet /\ (walk' = NoWalk \/ walk'.pc = "settling")
        /\ faults' \in 0..MaxFaults
    BY <1>0, <1>1, <1>10, Notes, WalkGoes, Counted DEF Verify
  <2>2. row' \in RowSet
    BY <1>0, <1>10 DEF Verify, RowSet
  <2> QED BY <1>10, <2>1, <2>2 DEF Verify, Typed, WalkLeft
<1>11. CASE NoteHealthy
  BY <1>1, <1>11, Notes DEF NoteHealthy, Typed, WalkLeft
<1> QED BY <1>2, <1>3, <1>4, <1>5, <1>6, <1>8, <1>9, <1>10, <1>11

\* What the owner asks for, and a reconciliation, keep the types.
LEMMA RequestsTyped ==
    ASSUME Typed, Choose \/ Retry \/ Abandon \/ ResumeAttempt \/ AskTelegram \/ AskRemoval
    PROVE  /\ Typed'
           /\ walk' = walk \/ (walk.pc = "idle" /\ walk'.pc = "checking")
           /\ UNCHANGED <<up, live, ghosts>>
<1> USE DEF disk, process, bounds, history
<1>0. /\ entry \in EntrySet /\ walk \in WalkSet /\ crossed \in BOOLEAN
      /\ faults \in 0..MaxFaults /\ acts \in 0..MaxActs
  BY DEF Typed
<1>1. {"pending", "abandoned", "failed_permanent"} \subseteq Resumable \cup Terminal
  BY DEF Resumable, Terminal
<1>2. CASE Choose
  <2>1. /\ entry' \in EntrySet /\ walk' \in WalkSet
        /\ walk' = walk \/ (walk.pc = "idle" /\ walk'.pc = "checking")
    BY <1>2, BegunMoves, SetsOutMoves DEF Choose
  <2> QED BY <1>2, <2>1 DEF Choose, Typed
<1>3. CASE Retry
  <2> DEFINE e == [entry EXCEPT !.state = "pending"]
  <2>1. e \in EntrySet /\ e.state # "none"
    BY <1>1, Notes, States
  <2>2. SetsOut(e, "chosen")
    BY <1>3 DEF Retry
  <2> HIDE DEF e
  <2>3. /\ entry' \in EntrySet /\ walk' \in WalkSet
        /\ walk' = walk \/ (walk.pc = "idle" /\ walk'.pc = "checking")
    BY <2>1, <2>2, SetsOutMoves
  <2> QED BY <1>3, <2>3, Counted DEF Retry, Typed
<1>4. CASE Abandon
  <2>1. entry' \in EntrySet /\ acts' \in 0..MaxActs /\ UNCHANGED walk
    BY <1>1, <1>4, Notes, Counted DEF Abandon
  <2> QED BY <1>4, <2>1 DEF Abandon, Typed
<1>5. CASE ResumeAttempt
  BY <1>5 DEF ResumeAttempt, Typed
<1>6. CASE AskTelegram
  <2>1. /\ entry' \in EntrySet /\ walk' \in WalkSet
        /\ walk' = walk \/ (walk.pc = "idle" /\ walk'.pc = "checking")
    BY <1>0, <1>1, <1>6, Notes, SetsOutMoves DEF AskTelegram
  <2>2. faults' \in 0..MaxFaults /\ crossed' \in BOOLEAN
    BY <1>0, <1>6, Counted DEF AskTelegram
  <2> QED BY <1>6, <2>1, <2>2 DEF AskTelegram, Typed
<1>7. CASE AskRemoval
  BY <1>7, PlansLast, Counted DEF AskRemoval, Typed
<1> QED BY <1>2, <1>3, <1>4, <1>5, <1>6, <1>7

\* A removal's steps keep the types, and only the stop reaches into a walk.
LEMMA RemovalTyped ==
    ASSUME Typed, RemovalStep
    PROVE  /\ Typed' /\ removal # NoRemoval /\ UNCHANGED <<up, ghosts, recon>>
           /\ removal' = Tail(removal) \/ removal' = NoRemoval
           /\ walk' = [walk EXCEPT !.own = FALSE] \/ walk' = walk
           /\ walk' \in WalkSet
<1> USE DEF disk, process, bounds, history
<1>1. removal # NoRemoval
  BY DEF RemovalStep, StopBridge, DeleteOwnedBot, RemoveLocal, Removing
<1>2. removal' = Tail(removal) \/ removal' = NoRemoval
  BY DEF RemovalStep, StopBridge, DeleteOwnedBot, RemoveLocal, Removing
<1>3. removal' \in Remainders
  BY <1>1, <1>2, PlansLast DEF Typed
<1>4. CASE StopBridge
  <2>1. walk' \in WalkSet /\ live' \in LiveSet
    BY <1>4, Blanks DEF StopBridge, StopLive, Typed, WalkSet
  <2> QED BY <1>1, <1>2, <1>3, <1>4, <2>1 DEF StopBridge, Typed
<1>5. CASE DeleteOwnedBot
  <2>1. holder' \in 0..Stranger /\ faults' \in 0..MaxFaults /\ upset' \subseteq {"gone", "bound"}
    BY <1>5, Counted, Numbers DEF DeleteOwnedBot, Typed
  <2> QED BY <1>1, <1>2, <1>3, <1>5, <2>1 DEF DeleteOwnedBot, Typed
<1>6. CASE RemoveLocal
  <2>1. row' \in RowSet
    BY <1>6, Blanks, Numbers DEF RemoveLocal, Typed, RowSet
  <2>2. entry' \in EntrySet /\ token' \in 0..MaxBots
    BY <1>6, Blanks, Numbers DEF RemoveLocal, Typed
  <2> QED BY <1>1, <1>2, <1>3, <1>6, <2>1, <2>2 DEF RemoveLocal, Typed
<1> QED BY <1>4, <1>5, <1>6 DEF RemovalStep

\* The process's own steps, and the world's, keep the types.
LEMMA WorldTyped ==
    ASSUME Typed, DownInv, Crash \/ Boot \/ PollRevoked \/ ByHand
    PROVE  Typed' /\ DownInv'
<1> USE DEF disk, process, bounds, history
<1>1. CASE Crash
  <2>1. Typed'
    BY <1>1, Blanks, Counted, PlansLast DEF Crash, Typed
  <2> QED BY <1>1, <2>1 DEF Crash, DownInv, NoWalk
<1>2. CASE Boot
  <2>1. CASE Served
    <3>0. /\ live' = [bot |-> token, polls |-> TRUE] /\ row' = [row EXCEPT !.bot = token]
          /\ token \in 0..MaxBots /\ row \in RowSet
      BY <1>2, <2>1 DEF Boot, Typed
    <3>1. live' \in LiveSet /\ row' \in RowSet
      BY <3>0 DEF LiveSet, RowSet
    <3>2. Typed'
      BY <1>2, <3>1 DEF Boot, Typed
    <3> QED BY <1>2, <3>2 DEF Boot, DownInv
  <2>2. CASE ~Served
    <3>1. Typed'
      BY <1>2, <2>2 DEF Boot, Typed
    <3> QED BY <1>2, <3>1 DEF Boot, DownInv
  <2> QED BY <2>1, <2>2
<1>3. CASE PollRevoked
  <2>1. live' \in LiveSet /\ ghosts' \subseteq Ours
    BY <1>3 DEF PollRevoked, Typed, LiveSet
  <2>2. up
    BY <1>3 DEF PollRevoked, DownInv, NotLive
  <2> QED BY <1>3, <2>1, <2>2 DEF PollRevoked, Typed, DownInv
<1>4. CASE ByHand
  <2>1. holder' \in 0..Stranger
    BY <1>4, Numbers DEF ByHand
  <2>2. Typed'
    BY <1>4, <2>1, Counted DEF ByHand, Typed
  <2> QED BY <1>4, <2>2 DEF ByHand, DownInv
<1> QED BY <1>1, <1>2, <1>3, <1>4

\* A step of the walk leaves the process, and a reconciliation, as they are.
LEMMA WalkFrame ==
    ASSUME WalkStep
    PROVE  walk.pc # "idle" /\ UNCHANGED <<up, recon, removal, acts, crossed>>
  BY DEF WalkStep, CheckUsername, CreateBot, ForgetOldBot, NoteCreated, SaveToken, NoteSaved,
     ReadRow, RecordRow, AddWorker, StartRunner, BindRow, NoteStarted, OpenChat, Verify, NoteHealthy,
     disk, process, bounds, history

\* Every step keeps the types, and what a process that is down holds.
LEMMA StepTyped == Typed /\ DownInv /\ [Next]_vars => Typed' /\ DownInv'
<1> SUFFICES ASSUME Typed, DownInv, [Next]_vars PROVE Typed' /\ DownInv'
  OBVIOUS
<1>1. CASE Choose \/ Retry \/ Abandon \/ ResumeAttempt \/ AskTelegram \/ AskRemoval
  <2>1. up
    BY <1>1 DEF DownInv, Choose, Retry, Abandon, ResumeAttempt, AskTelegram, AskRemoval
  <2> QED BY <1>1, <2>1, RequestsTyped DEF DownInv
<1>2. CASE WalkStep
  <2>1. Typed' /\ WalkLeft
    BY <1>2, BotStepsTyped, WorkerStepsTyped DEF WalkStep, DownInv
  <2>2. up'
    BY <1>2, WalkFrame DEF DownInv, NoWalk
  <2> QED BY <2>1, <2>2 DEF WalkLeft, DownInv, NoWalk
<1>3. CASE RemovalStep
  <2>1. up'
    BY <1>3, RemovalTyped DEF DownInv
  <2>2. walk'.pc = walk.pc /\ walk'.got = walk.got /\ (walk = NoWalk => walk' = NoWalk)
    BY <1>3, RemovalTyped DEF Typed, WalkSet, NoWalk
  <2> QED BY <1>3, <2>1, <2>2, RemovalTyped DEF DownInv
<1>4. CASE Crash \/ Boot \/ PollRevoked \/ ByHand
  BY <1>4, WorldTyped
<1>5. CASE UNCHANGED vars
  BY <1>5 DEF vars, disk, process, bounds, history, Typed, DownInv
<1> QED BY <1>1, <1>2, <1>3, <1>4, <1>5 DEF Next

\* At first there is nothing.
LEMMA InitTyped == Init => Typed /\ DownInv
<1> SUFFICES ASSUME Init PROVE Typed /\ DownInv
  OBVIOUS
<1>1. {} \subseteq Ours /\ {} \subseteq {"gone", "bound"} /\ 0 \in 0..MaxFaults /\ 0 \in 0..MaxActs
      /\ 0 \in 0..Stranger
  BY Numbers
<1>2. Typed
  BY <1>1, Blanks, Numbers, PlansLast DEF Init, Typed
<1>3. DownInv
  BY DEF Init, DownInv, NoWalk
<1> QED BY <1>2, <1>3

\* The journal, the register, the stored token and the process keep their types, and
\* what a removal has yet to do is always the rest of one of its three plans.
THEOREM TypeCorrect == Spec => []TypeOK
  BY InitTyped, StepTyped, TypeParts, PTL DEF Spec

-----------------------------------------------------------------------------
(* A walk and a removal, until somebody interferes *)

\* What a walk that nothing crossed knows of its steps: the entry is there; a walk that
\* was resumed found the bot; the token it got is of the bot at hand, and is what bots.env,
\* the register and the process hold from the step that wrote it there.
WalkInv ==
    /\ walk.pc # "idle" => entry.state # "none" /\ walk.kind # "none"
    /\ walk.kind = "resuming" => holder \in Ours
    /\ walk.pc \in {"unbinding", "made", "saving", "saved"} =>
          walk.got \in Ours /\ walk.id \in {0, walk.got}
    /\ walk.pc \in {"made", "saving"} /\ "bound" \notin upset => row.bot \in {0, walk.got}
    /\ walk.pc = "recording" => walk.known = row.bot
    /\ walk.pc = "adding" => /\ live.bot = 0
                             /\ row.state = "provisioning" /\ row.bot = walk.known
    /\ walk.pc \in {"starting", "binding", "started", "opening", "verifying", "settling"} =>
          walk.got # 0 /\ live.bot = walk.got /\ token = walk.got
    /\ walk.pc = "starting" => walk.own
    /\ walk.pc \in {"started", "opening", "verifying", "settling"} => row.bot = walk.got

\* What is left of a removal: once the bridge is stopped, once its bot is deleted, once
\* the row is gone.
Stopped == {<<"disable", "forget">>, <<"forget">>, <<"delete", "forget", "unbind", "disable">>,
            <<"forget", "unbind", "disable">>, <<"unbind", "disable">>, <<"disable">>,
            <<"delete", "purge", "forget", "unset">>}
Deleted == {<<"purge", "forget", "unset">>}
Purged == {<<"forget", "unset">>, <<"unset">>}

\* A removal takes a name away only behind what it names.
RemovalInv ==
    \/ removal = NoRemoval
    \/ removal \in Plans /\ row.state # "none"
    \/ removal \in Stopped /\ live.bot = 0 /\ row.state # "none"
    \/ removal \in Deleted /\ live.bot = 0 /\ row.state # "none" /\ holder = 0
    \/ removal \in Purged /\ live.bot = 0 /\ row.state = "none" /\ holder = 0

\* Neither begins while the other is at work.
Alone == Busy => removal = NoRemoval

HoldInv == ~crossed => Alone /\ WalkInv /\ RemovalInv

\* The order of the moves: nothing before the stop, the row before the journal only
\* behind the bot, the token last.
LEMMA Order ==
    /\ \A r \in Plans : r # NoRemoval /\ Head(r) = "stop" /\ Tail(r) \in Stopped
    /\ \A r \in Stopped :
          /\ r # NoRemoval /\ Head(r) \in {"disable", "forget", "delete", "unbind"}
          /\ Tail(r) \in Stopped \cup {NoRemoval} \/ (Head(r) = "delete" /\ Tail(r) \in Deleted)
    /\ \A r \in Deleted : r # NoRemoval /\ Head(r) = "purge" /\ Tail(r) \in Purged
    /\ \A r \in Purged : /\ r # NoRemoval /\ Head(r) \in {"forget", "unset"}
                         /\ Tail(r) \in Purged \cup {NoRemoval}
<1> USE DEF NoRemoval
<1>1. /\ Disconnect # << >> /\ Head(Disconnect) = "stop" /\ Tail(Disconnect) = <<"disable", "forget">>
  BY DEF Disconnect
<1>2. /\ DeleteBot # << >> /\ Head(DeleteBot) = "stop"
      /\ Tail(DeleteBot) = <<"delete", "forget", "unbind", "disable">>
  BY DEF DeleteBot
<1>3. /\ TearDown # << >> /\ Head(TearDown) = "stop"
      /\ Tail(TearDown) = <<"delete", "purge", "forget", "unset">>
  BY DEF TearDown
<1>4. \A r \in Plans : r # NoRemoval /\ Head(r) = "stop" /\ Tail(r) \in Stopped
  BY <1>1, <1>2, <1>3 DEF Plans, Stopped
<1>5. ASSUME NEW r \in Stopped
      PROVE  /\ r # NoRemoval /\ Head(r) \in {"disable", "forget", "delete", "unbind"}
             /\ Tail(r) \in Stopped \cup {NoRemoval} \/ (Head(r) = "delete" /\ Tail(r) \in Deleted)
  <2>1. CASE r = <<"disable", "forget">>
    <3>1. r # << >> /\ Head(r) = "disable" /\ Tail(r) = <<"forget">>
      BY <2>1
    <3> QED BY <3>1 DEF Stopped
  <2>2. CASE r = <<"forget">>
    <3>1. r # << >> /\ Head(r) = "forget" /\ Tail(r) = << >>
      BY <2>2
    <3> QED BY <3>1
  <2>3. CASE r = <<"delete", "forget", "unbind", "disable">>
    <3>1. r # << >> /\ Head(r) = "delete" /\ Tail(r) = <<"forget", "unbind", "disable">>
      BY <2>3
    <3> QED BY <3>1 DEF Stopped
  <2>4. CASE r = <<"forget", "unbind", "disable">>
    <3>1. r # << >> /\ Head(r) = "forget" /\ Tail(r) = <<"unbind", "disable">>
      BY <2>4
    <3> QED BY <3>1 DEF Stopped
  <2>5. CASE r = <<"unbind", "disable">>
    <3>1. r # << >> /\ Head(r) = "unbind" /\ Tail(r) = <<"disable">>
      BY <2>5
    <3> QED BY <3>1 DEF Stopped
  <2>6. CASE r = <<"disable">>
    <3>1. r # << >> /\ Head(r) = "disable" /\ Tail(r) = << >>
      BY <2>6
    <3> QED BY <3>1
  <2>7. CASE r = <<"delete", "purge", "forget", "unset">>
    <3>1. r # << >> /\ Head(r) = "delete" /\ Tail(r) = <<"purge", "forget", "unset">>
      BY <2>7
    <3> QED BY <3>1 DEF Deleted
  <2> QED BY <2>1, <2>2, <2>3, <2>4, <2>5, <2>6, <2>7 DEF Stopped
<1>6. ASSUME NEW r \in Deleted PROVE r # NoRemoval /\ Head(r) = "purge" /\ Tail(r) \in Purged
  <2>0. r = <<"purge", "forget", "unset">>
    BY DEF Deleted
  <2>1. r # << >> /\ Head(r) = "purge" /\ Tail(r) = <<"forget", "unset">>
    BY <2>0
  <2> QED BY <2>1 DEF Purged
<1>7. ASSUME NEW r \in Purged
      PROVE  r # NoRemoval /\ Head(r) \in {"forget", "unset"} /\ Tail(r) \in Purged \cup {NoRemoval}
  <2>1. CASE r = <<"forget", "unset">>
    <3>1. r # << >> /\ Head(r) = "forget" /\ Tail(r) = <<"unset">>
      BY <2>1
    <3> QED BY <3>1 DEF Purged
  <2>2. CASE r = <<"unset">>
    <3>1. r # << >> /\ Head(r) = "unset" /\ Tail(r) = << >>
      BY <2>2
    <3> QED BY <3>1
  <2> QED BY <2>1, <2>2 DEF Purged
<1> QED BY <1>4, <1>5, <1>6, <1>7

\* A removal that nothing crossed runs while no walk does, and keeps its order.
LEMMA RemovalKeepsHold ==
    ASSUME Typed, DownInv, Alone, WalkInv, RemovalInv, RemovalStep
    PROVE  Alone' /\ WalkInv' /\ RemovalInv' /\ UNCHANGED crossed
<1> USE DEF disk, process, bounds, history
<1>1. removal # NoRemoval /\ recon' = recon
  BY RemovalTyped
<1>2. walk = NoWalk /\ recon = "idle"
  BY <1>1 DEF Alone, Busy, DownInv, Typed
<1>3. walk' = NoWalk
  BY <1>2, RemovalTyped DEF NoWalk
<1>4. Alone' /\ WalkInv'
  BY <1>1, <1>2, <1>3 DEF Alone, Busy, WalkInv, NoWalk
<1>5. UNCHANGED crossed
  BY DEF RemovalStep, StopBridge, DeleteOwnedBot, RemoveLocal
<1>6. CASE removal \in Plans /\ row.state # "none"
  <2>1. StopBridge
    BY <1>6, Order DEF RemovalStep, DeleteOwnedBot, RemoveLocal, Removing
  <2>2. removal' \in Stopped /\ live'.bot = 0 /\ row' = row
    BY <1>6, <2>1, Order DEF StopBridge, Removing, StopLive, NotLive
  <2> QED BY <1>4, <1>5, <1>6, <2>2 DEF RemovalInv
<1>7. CASE removal \in Stopped /\ live.bot = 0 /\ row.state # "none"
  <2>1. CASE DeleteOwnedBot
    <3>1. live' = live /\ row' = row
      BY <2>1 DEF DeleteOwnedBot
    <3>2. \/ removal' = NoRemoval
          \/ removal' = Tail(removal) /\ holder' = 0
      BY <2>1 DEF DeleteOwnedBot
    <3>3. removal' \in Stopped \cup Deleted \cup {NoRemoval}
      BY <1>7, <3>2, Order
    <3> QED BY <1>4, <1>5, <1>7, <3>1, <3>2, <3>3 DEF RemovalInv
  <2>2. CASE RemoveLocal
    <3>1. /\ Head(removal) \in {"disable", "forget", "unbind"} /\ removal' = Tail(removal)
          /\ live' = live
      BY <1>7, <2>2, Order DEF RemoveLocal, Removing
    <3>2. row'.state # "none"
      BY <1>7, <2>2, Order DEF RemoveLocal, Removing, Typed, RowSet
    <3>3. removal' \in Stopped \cup {NoRemoval}
      BY <1>7, <3>1, Order
    <3> QED BY <1>4, <1>5, <1>7, <3>1, <3>2, <3>3 DEF RemovalInv
  <2>3. ~StopBridge
    BY <1>7, Order DEF StopBridge, Removing
  <2> QED BY <2>1, <2>2, <2>3 DEF RemovalStep
<1>8. CASE removal \in Deleted /\ live.bot = 0 /\ row.state # "none" /\ holder = 0
  <2>1. RemoveLocal /\ Head(removal) = "purge"
    BY <1>8, Order DEF RemovalStep, StopBridge, DeleteOwnedBot, Removing
  <2>2. row' = NoRow /\ removal' \in Purged /\ live' = live /\ holder' = holder
    BY <1>8, <2>1, Order DEF RemoveLocal, Removing
  <2> QED BY <1>4, <1>5, <1>8, <2>2 DEF RemovalInv, NoRow
<1>9. CASE removal \in Purged /\ live.bot = 0 /\ row.state = "none" /\ holder = 0
  <2>1. RemoveLocal /\ Head(removal) \in {"forget", "unset"}
    BY <1>9, Order DEF RemovalStep, StopBridge, DeleteOwnedBot, Removing
  <2>2. row' = row /\ removal' \in Purged \cup {NoRemoval} /\ live' = live /\ holder' = holder
    BY <1>9, <2>1, Order DEF RemoveLocal, Removing
  <2> QED BY <1>4, <1>5, <1>9, <2>2 DEF RemovalInv
<1> QED BY <1>1, <1>6, <1>7, <1>8, <1>9 DEF RemovalInv

\* What the owner asks for, when nothing is crossed by it.
LEMMA RequestsKeepHold ==
    ASSUME Typed, DownInv, Alone, WalkInv, RemovalInv, ~crossed',
           Choose \/ Retry \/ Abandon \/ ResumeAttempt \/ AskTelegram \/ AskRemoval
    PROVE  Alone' /\ WalkInv' /\ RemovalInv'
<1> USE DEF disk, process, bounds, history
<1>0. \A st \in {"pending", "abandoned", "failed_permanent"} : st \in Resumable \cup Terminal
  BY DEF Resumable, Terminal
<1>1. UNCHANGED <<holder, row, live, token, upset>>
  BY DEF Choose, Retry, Abandon, ResumeAttempt, AskTelegram, AskRemoval
<1>2. CASE AskRemoval
  <2>1. ~Busy /\ removal' \in Plans /\ row.state # "none" /\ UNCHANGED <<walk, recon, entry>>
    BY <1>2 DEF AskRemoval
  <2> QED BY <1>1, <2>1 DEF Alone, WalkInv, RemovalInv, Busy
<1>3. CASE ResumeAttempt
  <2>1. removal = NoRemoval /\ UNCHANGED <<walk, entry, removal>>
    BY <1>3 DEF ResumeAttempt
  <2> QED BY <1>1, <2>1 DEF Alone, WalkInv, RemovalInv
<1>4. CASE Abandon
  <2>1. entry'.state # "none" /\ UNCHANGED <<walk, recon, removal>>
    BY <1>0, <1>4, Notes DEF Abandon
  <2> QED BY <1>1, <2>1 DEF Alone, WalkInv, RemovalInv, Busy
<1>5. ASSUME UNCHANGED removal, entry'.state # "none", recon' = "idle" \/ recon' = recon,
             \/ walk' = walk
             \/ /\ walk.pc = "idle" /\ walk'.pc = "checking" /\ removal = NoRemoval
                /\ walk'.kind \in {"chosen", "resuming"}
                /\ walk'.kind = "resuming" => holder \in Ours
      PROVE  Alone' /\ WalkInv' /\ RemovalInv'
  BY <1>1, <1>5 DEF Alone, WalkInv, RemovalInv, Busy
<1>6. CASE Choose
  <2>1. /\ entry'.state # "none"
        /\ walk' = walk \/ (walk.pc = "idle" /\ walk'.pc = "checking" /\ walk'.kind = "chosen")
    BY <1>6, BegunMoves, SetsOutMoves DEF Choose
  <2>2. UNCHANGED <<removal, recon>> /\ (walk.pc = "idle" => removal = NoRemoval)
    BY <1>6 DEF Choose
  <2> QED BY <1>5, <2>1, <2>2
<1>7. CASE Retry
  <2>1. removal = NoRemoval /\ UNCHANGED <<removal, recon>>
    BY <1>7 DEF Retry
  <2>2. [entry EXCEPT !.state = "pending"] \in EntrySet /\ [entry EXCEPT !.state = "pending"].state # "none"
    BY <1>0, Notes, States
  <2>3. /\ entry'.state # "none"
        /\ walk' = walk \/ (walk.pc = "idle" /\ walk'.pc = "checking" /\ walk'.kind = "chosen")
    BY <1>7, <2>2, SetsOutMoves DEF Retry
  <2> QED BY <1>5, <2>1, <2>3
<1>8. CASE AskTelegram
  <2>1. removal = NoRemoval /\ UNCHANGED removal /\ recon' = "idle"
    BY <1>8 DEF AskTelegram, Alone, Busy
  <2>2. CASE UNCHANGED <<entry, walk>>
    BY <1>1, <2>1, <2>2 DEF Alone, WalkInv, RemovalInv, Busy
  <2>3. CASE Note("failed_permanent") /\ UNCHANGED walk
    BY <1>0, <1>5, <2>1, <2>3, Notes
  <2>4. CASE holder \in Ours /\ entry.state # "none" /\ SetsOut(entry, "resuming")
    <3>1. /\ entry'.state # "none"
          /\ walk' = walk \/ (walk.pc = "idle" /\ walk'.pc = "checking" /\ walk'.kind = "resuming")
      BY <2>4, SetsOutMoves DEF Typed
    <3> QED BY <1>5, <2>1, <2>4, <3>1
  <2> QED BY <1>8, <2>2, <2>3, <2>4 DEF AskTelegram
<1> QED BY <1>2, <1>3, <1>4, <1>6, <1>7, <1>8

\* A walk that is over knows nothing, and has nothing to answer for.
LEMMA EndedWalk == walk' = NoWalk => WalkInv'
  BY DEF WalkInv, NoWalk

\* The walk's steps up to the saved token: the token is of the bot at hand, and the row
\* has let go of any other, or its failure to is on record.
LEMMA BotStepsKnow ==
    ASSUME Typed, WalkInv, CheckUsername \/ CreateBot \/ ForgetOldBot \/ NoteCreated \/ SaveToken \/ NoteSaved
    PROVE  WalkInv'
<1> USE DEF disk, process, bounds, history
<1>0. /\ entry \in EntrySet /\ row \in RowSet /\ walk \in WalkSet /\ walk.id \in 0..MaxBots
      /\ made \in 0..MaxBots
  BY DEF Typed, WalkSet
<1>1. /\ \A pc \in {"creating", "launching", "unbinding", "made", "saving", "saved"} : pc \in WalkStates
      /\ {"failed_permanent", "failed_retryable", "awaiting", "bot_created", "token_saved"}
            \subseteq Resumable \cup Terminal
  BY DEF WalkStates, Resumable, Terminal
<1>2. ASSUME NEW st \in {"failed_permanent", "failed_retryable"}, Fails(st) PROVE WalkInv'
  BY <1>1, <1>2, Notes, EndedWalk
<1>3. CASE CheckUsername
  <2>1. entry.state # "none" /\ walk.pc = "checking" /\ UNCHANGED holder
    BY <1>3 DEF CheckUsername, WalkInv
  <2>2. CASE WalkNotes([entry EXCEPT !.state = "awaiting"], "creating")
    <3>1. [entry EXCEPT !.state = "awaiting"] \in EntrySet /\ [entry EXCEPT !.state = "awaiting"].state # "none"
      BY <1>1, Notes, States
    <3>2. entry'.state # "none" /\ walk'.pc = "creating" /\ walk'.kind = walk.kind
      BY <1>1, <2>1, <2>2, <3>1, WalkNotesMoves, WalkGoes
    <3> QED BY <2>1, <3>2 DEF WalkInv
  <2>3. CASE /\ UNCHANGED entry
             /\ walk' = [walk EXCEPT !.pc = IF walk.had THEN "launching" ELSE "creating"]
    <3>1. walk'.pc \in {"launching", "creating"} /\ walk'.kind = walk.kind
      BY <1>0, <2>3 DEF WalkSet
    <3> QED BY <2>1, <2>3, <3>1 DEF WalkInv
  <2> QED BY <1>2, <1>3, <2>2, <2>3, Zenon DEF CheckUsername
<1>4. CASE CreateBot
  <2>1. CASE \E st \in {"failed_retryable", "failed_permanent"} : Fails(st)
    BY <1>2, <2>1
  <2>2. CASE /\ UNCHANGED entry /\ holder' \in Ours
             /\ \E i \in {0, holder'} :
                   walk' = [walk EXCEPT !.pc = "unbinding", !.got = holder', !.id = i]
    <3>1. /\ walk'.pc = "unbinding" /\ walk'.got = holder' /\ walk'.id \in {0, holder'}
          /\ walk'.kind = walk.kind
      BY <1>0, <2>2 DEF WalkSet
    <3>2. walk.pc = "creating"
      BY <1>4 DEF CreateBot
    <3> QED BY <2>2, <3>1, <3>2 DEF WalkInv
  <2>3. made' = made + 1 /\ made < MaxBots => made' \in Ours
    BY <1>0, Numbers DEF Ours
  <2> QED BY <1>4, <2>1, <2>2, <2>3 DEF CreateBot
<1>5. CASE ForgetOldBot
  <2>1. /\ walk.pc = "unbinding" /\ walk'.pc = "made" /\ walk'.got = walk.got /\ walk'.id = walk.id
        /\ walk'.kind = walk.kind /\ UNCHANGED <<entry, holder, live, token>>
    BY <1>1, <1>5, WalkGoes DEF ForgetOldBot
  <2>2. "bound" \notin upset' => row'.bot \in {0, walk.got}
    <3>1. Unbound(row).bot \in {0, walk.got}
      BY <1>0, <2>1 DEF Unbound, WalkInv, RowSet
    <3> QED BY <1>5, <3>1 DEF ForgetOldBot
  <2> QED BY <2>1, <2>2 DEF WalkInv
<1>6. CASE NoteCreated
  <2> DEFINE new == [entry EXCEPT !.state = "bot_created", !.bot = IF walk.id = 0 THEN @ ELSE walk.id]
  <2>1. new \in EntrySet /\ new.state # "none"
    BY <1>0, <1>1, States DEF EntrySet
  <2>2. WalkNotes(new, "saving") /\ walk.pc = "made" /\ UNCHANGED <<holder, live, token, row, upset>>
    BY <1>6 DEF NoteCreated
  <2> HIDE DEF new
  <2>3. /\ entry'.state # "none" /\ walk'.pc = "saving" /\ walk'.got = walk.got
        /\ walk'.id = walk.id /\ walk'.kind = walk.kind
    BY <1>1, <2>1, <2>2, WalkNotesMoves, WalkGoes DEF WalkInv
  <2> QED BY <2>2, <2>3 DEF WalkInv
<1>7. CASE SaveToken
  <2>1. CASE Goes("saved") /\ UNCHANGED entry
    <3>1. /\ walk.pc = "saving" /\ walk'.pc = "saved" /\ walk'.got = walk.got /\ walk'.id = walk.id
          /\ walk'.kind = walk.kind /\ UNCHANGED holder
      BY <1>1, <1>7, <2>1, WalkGoes DEF SaveToken
    <3> QED BY <2>1, <3>1 DEF WalkInv
  <2> QED BY <1>2, <1>7, <2>1 DEF SaveToken
<1>8. CASE NoteSaved
  <2> DEFINE new == [entry EXCEPT !.state = "token_saved", !.saved = TRUE]
  <2>1. new \in EntrySet /\ new.state # "none"
    BY <1>0, <1>1, States DEF EntrySet
  <2>2. WalkNotes(new, "launching") /\ walk.pc = "saved" /\ UNCHANGED holder
    BY <1>8 DEF NoteSaved
  <2> HIDE DEF new
  <2>3. entry'.state # "none" /\ walk'.pc = "launching" /\ walk'.kind = walk.kind
    BY <1>1, <2>1, <2>2, WalkNotesMoves, WalkGoes DEF WalkInv
  <2> QED BY <2>2, <2>3 DEF WalkInv
<1> QED BY <1>3, <1>4, <1>5, <1>6, <1>7, <1>8

\* The walk's steps from the row to the verdict: the worker is of the stored token, and
\* the row is written before it polls.
LEMMA WorkerStepsKnow ==
    ASSUME Typed, WalkInv,
           \/ ReadRow \/ RecordRow \/ AddWorker \/ StartRunner \/ BindRow \/ NoteStarted
           \/ OpenChat \/ Verify \/ NoteHealthy
    PROVE  WalkInv'
<1> USE DEF disk, process, bounds, history
<1>0. /\ entry \in EntrySet /\ row \in RowSet /\ walk \in WalkSet /\ live \in LiveSet
      /\ walk.known \in 0..MaxBots /\ walk.got \in 0..MaxBots
  BY DEF Typed, WalkSet
<1>1. /\ \A pc \in {"recording", "adding", "starting", "binding", "started", "opening", "verifying",
                    "settling"} : pc \in WalkStates
      /\ {"failed_retryable", "worker_started", "start_sent", "healthy"} \subseteq Resumable \cup Terminal
  BY DEF WalkStates, Resumable, Terminal
<1>2. ASSUME NEW st \in {"healthy", "failed_retryable"}, Fails(st) PROVE WalkInv'
  BY <1>1, <1>2, Notes, EndedWalk
<1>3. CASE ReadRow
  <2>1. CASE token # 0
    <3>1. /\ walk.pc = "launching" /\ walk'.pc = "recording" /\ walk'.known = row.bot
          /\ walk'.kind = walk.kind /\ UNCHANGED <<entry, row, holder>>
      BY <1>0, <1>3, <2>1 DEF ReadRow, WalkSet
    <3> QED BY <3>1 DEF WalkInv
  <2> QED BY <1>2, <1>3, <2>1 DEF ReadRow
<1>4. CASE RecordRow
  <2>1. /\ walk.pc = "recording" /\ walk'.pc = "adding" /\ walk'.known = walk.known
        /\ walk'.kind = walk.kind /\ UNCHANGED <<entry, holder>> /\ live'.bot = 0
    BY <1>1, <1>4, WalkGoes DEF RecordRow, StopLive, NotLive
  <2>2. row'.state = "provisioning" /\ row'.bot = walk.known
    BY <1>0, <1>4, <2>1, UpsertMoves DEF RecordRow, WalkInv
  <2> QED BY <2>1, <2>2 DEF WalkInv
<1>5. CASE AddWorker
  <2>1. CASE /\ Admits(walk.known) /\ live' = [bot |-> token, polls |-> FALSE]
             /\ walk' = [walk EXCEPT !.pc = "starting", !.got = token, !.own = TRUE]
             /\ UNCHANGED entry
    <3>1. /\ walk.pc = "adding" /\ walk'.pc = "starting" /\ walk'.got = token /\ walk'.own
          /\ walk'.kind = walk.kind /\ live'.bot = token /\ token # 0 /\ UNCHANGED <<token, holder>>
      BY <1>0, <1>5, <2>1 DEF AddWorker, WalkSet, Admits
    <3> QED BY <2>1, <3>1 DEF WalkInv
  <2> QED BY <1>2, <1>5, <2>1 DEF AddWorker
<1>6. CASE StartRunner
  <2>1. /\ walk.pc = "starting" /\ walk'.pc = "binding" /\ walk'.got = walk.got
        /\ walk'.kind = walk.kind /\ live'.bot = live.bot /\ UNCHANGED <<entry, token, holder>>
    BY <1>0, <1>1, <1>6, WalkGoes DEF StartRunner, LiveSet
  <2> QED BY <2>1 DEF WalkInv
<1>7. CASE BindRow
  <2>1. /\ walk.pc = "binding" /\ walk'.pc = "started" /\ walk'.got = walk.got
        /\ walk'.kind = walk.kind /\ UNCHANGED <<entry, token, holder, live>>
    BY <1>1, <1>7, WalkGoes DEF BindRow
  <2>2. row'.bot = walk.got
    BY <1>0, <1>7, <2>1, UpsertMoves DEF BindRow, WalkInv
  <2> QED BY <2>1, <2>2 DEF WalkInv
<1>8. ASSUME NEW st \in {"worker_started", "start_sent"}, NEW pc \in {"opening", "verifying"},
             walk.pc \in {"started", "opening"},
             WalkNotes([entry EXCEPT !.state = st], pc), UNCHANGED <<holder, live, token, row>>
      PROVE  WalkInv'
  <2> DEFINE new == [entry EXCEPT !.state = st]
  <2>1. new \in EntrySet /\ new.state # "none" /\ pc \in WalkStates
    BY <1>1, Notes, States
  <2>2. WalkNotes(new, pc)
    BY <1>8
  <2> HIDE DEF new
  <2>3. entry'.state # "none" /\ walk'.pc = pc /\ walk'.got = walk.got /\ walk'.kind = walk.kind
    BY <1>8, <2>1, <2>2, WalkNotesMoves, WalkGoes DEF WalkInv
  <2> QED BY <1>8, <2>3 DEF WalkInv
<1>9. CASE NoteStarted
  BY <1>8, <1>9 DEF NoteStarted
<1>10. CASE OpenChat
  BY <1>2, <1>8, <1>10 DEF OpenChat
<1>11. CASE Verify
  <2>1. CASE Goes("settling") /\ UNCHANGED entry
    <3>1. /\ walk.pc = "verifying" /\ walk'.pc = "settling" /\ walk'.got = walk.got
          /\ walk'.kind = walk.kind /\ UNCHANGED <<holder, live, token>>
      BY <1>1, <1>11, <2>1, WalkGoes DEF Verify
    <3>2. row'.bot = row.bot
      BY <1>0, <1>11, <2>1 DEF Verify, RowSet
    <3> QED BY <2>1, <3>1, <3>2 DEF WalkInv
  <2> QED BY <1>2, <1>11, <2>1 DEF Verify
<1>12. CASE NoteHealthy
  BY <1>2, <1>12 DEF NoteHealthy
<1> QED BY <1>3, <1>4, <1>5, <1>6, <1>7, <1>9, <1>10, <1>11, <1>12

\* The process's own steps and the world's, when nothing is crossed by them.
LEMMA WorldKeepsHold ==
    ASSUME Typed, DownInv, Alone, WalkInv, RemovalInv, ~crossed',
           Crash \/ Boot \/ PollRevoked \/ ByHand
    PROVE  Alone' /\ WalkInv' /\ RemovalInv'
<1> USE DEF disk, process, bounds, history
<1>1. CASE Crash
  BY <1>1, EndedWalk DEF Crash, Alone, Busy, RemovalInv, NoWalk
<1>2. CASE Boot
  <2>1. walk' = NoWalk /\ removal' = NoRemoval
    BY <1>2 DEF Boot, DownInv
  <2> QED BY <2>1, EndedWalk DEF Alone, RemovalInv
<1>3. CASE PollRevoked
  <2>1. live'.bot = live.bot /\ UNCHANGED <<holder, disk, walk, recon, removal, upset>>
    BY <1>3 DEF PollRevoked, Typed, LiveSet
  <2> QED BY <2>1 DEF Alone, Busy, WalkInv, RemovalInv
<1>4. CASE ByHand
  <2>1. ~Busy /\ removal = NoRemoval /\ UNCHANGED <<walk, recon, removal>>
    BY <1>4 DEF ByHand
  <2>2. walk = NoWalk
    BY <2>1 DEF Busy, DownInv
  <2> QED BY <2>1, <2>2, EndedWalk DEF Alone, RemovalInv
<1> QED BY <1>1, <1>2, <1>3, <1>4

\* What was crossed stays crossed.
LEMMA CrossedStays == [Next]_vars /\ ~crossed' => ~crossed
<1> SUFFICES ASSUME [Next]_vars, ~crossed' PROVE ~crossed
  OBVIOUS
<1>1. CASE WalkStep
  BY <1>1, WalkFrame
<1>2. CASE RemovalStep
  BY <1>2 DEF RemovalStep, StopBridge, DeleteOwnedBot, RemoveLocal, history
<1>3. CASE ~WalkStep /\ ~RemovalStep
  BY <1>3 DEF Next, Choose, Retry, Abandon, ResumeAttempt, AskTelegram, AskRemoval, Crash, Boot,
     PollRevoked, ByHand, vars, history
<1> QED BY <1>1, <1>2, <1>3

\* Every step keeps what a walk knows and the order of a removal, or crosses them.
LEMMA StepHolds == Typed /\ DownInv /\ HoldInv /\ [Next]_vars => HoldInv'
<1> SUFFICES ASSUME Typed, DownInv, HoldInv, [Next]_vars, ~crossed'
             PROVE  Alone' /\ WalkInv' /\ RemovalInv'
  BY DEF HoldInv
<1>0. Alone /\ WalkInv /\ RemovalInv
  BY CrossedStays DEF HoldInv
<1>1. CASE Choose \/ Retry \/ Abandon \/ ResumeAttempt \/ AskTelegram \/ AskRemoval
  BY <1>0, <1>1, RequestsKeepHold
<1>2. CASE WalkStep
  <2>1. removal' = NoRemoval
    BY <1>0, <1>2, WalkFrame DEF Alone, Busy
  <2>2. WalkInv'
    BY <1>0, <1>2, BotStepsKnow, WorkerStepsKnow DEF WalkStep
  <2> QED BY <2>1, <2>2 DEF Alone, RemovalInv
<1>3. CASE RemovalStep
  BY <1>0, <1>3, RemovalKeepsHold
<1>4. CASE Crash \/ Boot \/ PollRevoked \/ ByHand
  BY <1>0, <1>4, WorldKeepsHold
<1>5. CASE UNCHANGED vars
  BY <1>0, <1>5 DEF vars, disk, process, bounds, history, Alone, Busy, WalkInv, RemovalInv
<1> QED BY <1>1, <1>2, <1>3, <1>4, <1>5 DEF Next

\* At first nobody walks and nothing is removed.
LEMMA InitHolds == Init => HoldInv
  BY EndedWalk DEF Init, HoldInv, Alone, Busy, WalkInv, RemovalInv, NoWalk

-----------------------------------------------------------------------------
(* What the register, the journal and bots.env name *)

\* What a removal's step does to the bot, the row and the token.
LEMMA RemovalTakes ==
    ASSUME Typed, RemovalInv, RemovalStep
    PROVE  /\ live'.bot = 0 /\ ghosts' = ghosts
           /\ row'.state # "none" \/ holder' \notin Ours
           /\ row'.state = "active" => /\ row.state = "active" /\ row'.bot \in {0, row.bot}
                                       /\ token' = token
           /\ upset \subseteq upset'
<1> USE DEF disk, process, bounds, history
<1>0. row \in RowSet /\ ghosts' = ghosts /\ upset \subseteq upset'
  BY RemovalTyped DEF Typed, RemovalStep, StopBridge, DeleteOwnedBot, RemoveLocal
<1>1. CASE StopBridge
  <2>1. removal \in Plans /\ row.state # "none"
    BY <1>1, Order DEF StopBridge, Removing, RemovalInv
  <2> QED BY <1>0, <1>1, <2>1 DEF StopBridge, StopLive, NotLive
<1>2. CASE DeleteOwnedBot
  <2>1. live.bot = 0 /\ row.state # "none"
    BY <1>2, Order DEF DeleteOwnedBot, RemovalInv
  <2> QED BY <1>0, <1>2, <2>1 DEF DeleteOwnedBot
<1>3. CASE RemoveLocal
  <2>1. removal # NoRemoval /\ Head(removal) \in {"disable", "unbind", "purge", "forget", "unset"}
    BY <1>3 DEF RemoveLocal, Removing
  <2>2. live.bot = 0 /\ UNCHANGED <<live, holder>>
    BY <1>3, <2>1, Order DEF RemoveLocal, RemovalInv
  <2>3. CASE Removing("disable")
    <3>1. row.state # "none" /\ row'.state = "disabled"
      BY <1>0, <1>3, <2>3, Order DEF RemoveLocal, Removing, RemovalInv, RowSet
    <3> QED BY <1>0, <2>2, <3>1
  <2>4. CASE Removing("unbind")
    <3>1. row.state # "none" /\ row'.state = row.state /\ row'.bot = 0 /\ token' = token
      BY <1>0, <1>3, <2>4, Order DEF RemoveLocal, Removing, RemovalInv, RowSet
    <3> QED BY <1>0, <2>2, <3>1
  <2>5. CASE Removing("purge")
    <3>1. holder = 0 /\ row'.state = "none"
      BY <1>0, <1>3, <2>5, Order DEF RemoveLocal, Removing, RemovalInv, NoRow
    <3> QED BY <1>0, <2>2, <3>1, Numbers
  <2>6. CASE Removing("forget")
    <3>1. (row.state # "none" \/ holder = 0) /\ UNCHANGED <<row, token>>
      BY <1>3, <2>6, Order DEF RemoveLocal, Removing, RemovalInv
    <3> QED BY <1>0, <2>2, <3>1, Numbers
  <2>7. CASE Removing("unset")
    <3>1. row.state = "none" /\ holder = 0 /\ UNCHANGED row
      BY <1>3, <2>7, Order DEF RemoveLocal, Removing, RemovalInv
    <3> QED BY <1>0, <2>2, <3>1, Numbers
  <2> QED BY <1>3, <2>3, <2>4, <2>5, <2>6, <2>7 DEF RemoveLocal
<1> QED BY <1>1, <1>2, <1>3 DEF RemovalStep

\* No step of a walk, and no request, loses the entry.
LEMMA EntryStays ==
    ASSUME Typed, WalkStep \/ Choose \/ Retry \/ Abandon \/ ResumeAttempt \/ AskTelegram \/ AskRemoval,
           entry.state # "none"
    PROVE  entry'.state # "none"
<1> USE DEF disk, process, bounds, history
<1>0. /\ entry \in EntrySet
      /\ \A st \in {"pending", "awaiting", "bot_created", "token_saved", "worker_started", "start_sent",
                 "failed_retryable", "healthy", "failed_permanent", "abandoned"} :
           st \in Resumable \cup Terminal /\ st # "none"
  BY DEF Typed, Resumable, Terminal
<1>1. \A st \in {"failed_retryable", "failed_permanent", "healthy"} : Fails(st) => entry'.state # "none"
  BY <1>0, Notes
<1>2. \A st \in {"pending", "awaiting", "bot_created", "token_saved", "worker_started", "start_sent"} :
         [entry EXCEPT !.state = st].state = st
  BY <1>0, Notes
<1>3. \A new, pc : WalkNotes(new, pc) => entry' = new
  BY DEF WalkNotes
<1>4. CASE CheckUsername
  BY <1>0, <1>1, <1>2, <1>3, <1>4, Zenon DEF CheckUsername
<1>5. CASE NoteCreated \/ NoteSaved
  <2>1. /\ [entry EXCEPT !.state = "bot_created", !.bot = IF walk.id = 0 THEN @ ELSE walk.id].state = "bot_created"
        /\ [entry EXCEPT !.state = "token_saved", !.saved = TRUE].state = "token_saved"
    BY <1>0 DEF EntrySet
  <2> QED BY <1>3, <1>5, <2>1 DEF NoteCreated, NoteSaved
<1>6. CASE NoteStarted \/ OpenChat
  BY <1>0, <1>1, <1>2, <1>3, <1>6 DEF NoteStarted, OpenChat
<1>7. CASE CreateBot \/ SaveToken \/ ReadRow \/ AddWorker \/ Verify \/ NoteHealthy
  BY <1>1, <1>7 DEF CreateBot, SaveToken, ReadRow, AddWorker, Verify, NoteHealthy
<1>8. CASE ForgetOldBot \/ RecordRow \/ StartRunner \/ BindRow
  BY <1>8 DEF ForgetOldBot, RecordRow, StartRunner, BindRow
<1>9. CASE Choose \/ Retry \/ Abandon \/ ResumeAttempt \/ AskTelegram \/ AskRemoval
  <2>1. CASE Choose
    BY <2>1, BegunMoves, SetsOutMoves DEF Choose
  <2>2. CASE Retry
    BY <1>0, <1>2, <2>2, Notes, SetsOutMoves DEF Retry
  <2>3. CASE Abandon \/ ResumeAttempt \/ AskTelegram \/ AskRemoval
    BY <1>0, <2>3, Notes, SetsOutMoves DEF Abandon, ResumeAttempt, AskTelegram, AskRemoval
  <2> QED BY <1>9, <2>1, <2>2, <2>3
<1> QED BY <1>4, <1>5, <1>6, <1>7, <1>8, <1>9 DEF WalkStep

\* A bot that polls is in the register, a bot at the name in the register or the journal,
\* and an active row's token is stored.
NamedInv ==
    ~crossed => /\ live.bot # 0 => /\ row.state \in {"provisioning", "active"}
                                   /\ row.bot \in {0, live.bot}
                /\ ghosts = {}
                /\ holder \in Ours => entry.state # "none" \/ row.state # "none"
                /\ "bound" \notin upset =>
                      (row.state = "active" => token # 0 /\ row.bot \in {0, token})

\* Steps of a walk: the row is written before the worker that it names polls, and made
\* active only when its token is the one that polls.
LEMMA WalkNames ==
    ASSUME Typed, DownInv, WalkInv, WalkStep, NamedInv, ~crossed
    PROVE  NamedInv'
<1> USE DEF disk, process, bounds, history
<1>0. /\ row \in RowSet /\ live \in LiveSet /\ walk \in WalkSet /\ walk.known \in 0..MaxBots
      /\ walk.got \in 0..MaxBots
  BY DEF Typed, WalkSet
<1>1. entry'.state # "none"
  BY EntryStays, WalkFrame DEF WalkInv
<1>2. /\ live.bot # 0 => row.state \in {"provisioning", "active"} /\ row.bot \in {0, live.bot}
      /\ ghosts = {}
      /\ "bound" \notin upset => (row.state = "active" => token # 0 /\ row.bot \in {0, token})
  BY DEF NamedInv
<1>3. CASE CheckUsername \/ CreateBot \/ NoteCreated \/ ReadRow \/ NoteStarted \/ OpenChat \/ NoteHealthy
  <2>1. UNCHANGED <<row, token, live, ghosts, upset>>
    BY <1>3 DEF CheckUsername, CreateBot, NoteCreated, ReadRow, NoteStarted, OpenChat, NoteHealthy
  <2> QED BY <1>1, <1>2, <2>1 DEF NamedInv
<1>4. CASE ForgetOldBot
  <2>1. /\ row'.state = row.state /\ row'.bot \in {0, row.bot} /\ upset \subseteq upset'
        /\ UNCHANGED <<token, live, ghosts>>
    BY <1>0, <1>4 DEF ForgetOldBot, Unbound, RowSet
  <2> QED BY <1>1, <1>2, <2>1 DEF NamedInv
<1>5. CASE SaveToken
  <2>1. UNCHANGED <<row, live, ghosts, upset>> /\ token' \in {token, walk.got} /\ walk.pc = "saving"
    BY <1>5 DEF SaveToken
  <2>2. walk.got # 0 /\ ("bound" \notin upset => row.bot \in {0, walk.got})
    BY <2>1, Numbers DEF WalkInv
  <2> QED BY <1>1, <1>2, <2>1, <2>2 DEF NamedInv
<1>6. CASE NoteSaved
  <2>1. UNCHANGED <<row, token, ghosts, upset>> /\ (live' = live \/ live'.bot = 0)
    BY <1>6 DEF NoteSaved, StopLive, NotLive
  <2> QED BY <1>1, <1>2, <2>1 DEF NamedInv
<1>7. CASE RecordRow
  <2>1. live'.bot = 0 /\ row'.state = "provisioning" /\ UNCHANGED <<token, ghosts, upset>>
    BY <1>0, <1>7, UpsertMoves DEF RecordRow, StopLive, NotLive
  <2> QED BY <1>1, <1>2, <2>1 DEF NamedInv
<1>8. CASE AddWorker
  <2>1. UNCHANGED <<row, token, ghosts, upset>> /\ walk.pc = "adding"
    BY <1>8 DEF AddWorker
  <2>2. live' = live \/ (live'.bot = token /\ Admits(walk.known))
    BY <1>8 DEF AddWorker
  <2>3. row.state = "provisioning" /\ row.bot = walk.known
    BY <2>1 DEF WalkInv
  <2> QED BY <1>1, <1>2, <2>1, <2>2, <2>3 DEF NamedInv, Admits
<1>9. CASE StartRunner
  <2>1. walk.own
    BY <1>9 DEF StartRunner, WalkInv
  <2>2. live'.bot = live.bot /\ UNCHANGED <<row, token, ghosts, upset>>
    BY <1>0, <1>9, <2>1 DEF StartRunner, LiveSet
  <2> QED BY <1>1, <1>2, <2>2 DEF NamedInv
<1>10. CASE BindRow
  <2>1. walk.got # 0 /\ live.bot = walk.got
    BY <1>10 DEF BindRow, WalkInv
  <2>2. /\ row'.state = "provisioning" /\ row'.bot = walk.got
        /\ UNCHANGED <<token, live, ghosts, upset>>
    BY <1>0, <1>10, <2>1, UpsertMoves DEF BindRow
  <2> QED BY <1>1, <1>2, <2>1, <2>2 DEF NamedInv
<1>11. CASE Verify
  <2>1. walk.got # 0 /\ live.bot = walk.got /\ token = walk.got /\ row.bot = walk.got
    BY <1>11 DEF Verify, WalkInv
  <2>2. /\ UNCHANGED <<token, live, ghosts, upset>> /\ row'.bot = row.bot
        /\ row'.state \in {row.state, "active"}
    BY <1>0, <1>11 DEF Verify, RowSet
  <2> QED BY <1>1, <1>2, <2>1, <2>2 DEF NamedInv
<1> QED BY <1>3, <1>4, <1>5, <1>6, <1>7, <1>8, <1>9, <1>10, <1>11 DEF WalkStep

\* Every step keeps what is named.
LEMMA StepNames == Typed /\ DownInv /\ HoldInv /\ NamedInv /\ [Next]_vars => NamedInv'
<1> SUFFICES ASSUME Typed, DownInv, HoldInv, NamedInv, [Next]_vars, ~crossed' PROVE NamedInv'
  BY DEF NamedInv
<1> USE DEF disk, process, bounds, history
<1>0. Alone /\ WalkInv /\ RemovalInv /\ ~crossed
  BY CrossedStays DEF HoldInv
<1>1. CASE WalkStep
  BY <1>0, <1>1, WalkNames
<1>2. CASE RemovalStep
  BY <1>0, <1>2, RemovalTakes DEF NamedInv
<1>3. CASE Choose \/ Retry \/ Abandon \/ ResumeAttempt \/ AskTelegram \/ AskRemoval
  <2>1. UNCHANGED <<holder, row, live, ghosts, token, upset>>
    BY <1>3 DEF Choose, Retry, Abandon, ResumeAttempt, AskTelegram, AskRemoval
  <2>2. entry.state # "none" => entry'.state # "none"
    BY <1>3, EntryStays
  <2> QED BY <1>0, <2>1, <2>2 DEF NamedInv
<1>4. CASE Crash
  BY <1>0, <1>4 DEF Crash, NotLive, NamedInv
<1>5. CASE Boot
  <2>1. live.bot = 0 /\ ghosts = {}
    BY <1>5 DEF Boot, DownInv, NotLive
  <2>2. CASE Served
    <3>1. /\ live'.bot = token /\ row'.state = "active" /\ row'.bot = token /\ token # 0
          /\ row.state = "active" /\ UNCHANGED <<token, ghosts, upset, holder, entry>>
      BY <1>5, <2>2 DEF Boot, Served, Admits, Typed, RowSet
    <3> QED BY <1>0, <2>1, <3>1 DEF NamedInv
  <2>3. CASE ~Served
    BY <1>0, <1>5, <2>3 DEF Boot, NamedInv
  <2> QED BY <2>2, <2>3
<1>6. CASE PollRevoked
  <2>1. /\ live'.bot = live.bot /\ UNCHANGED <<holder, disk, upset>>
    BY <1>6 DEF PollRevoked, Typed, LiveSet
  <2>2. ghosts' = {}
    BY <1>0, <1>6 DEF PollRevoked, NamedInv
  <2> QED BY <1>0, <2>1, <2>2 DEF NamedInv
<1>7. CASE ByHand
  <2>1. holder' \notin Ours /\ UNCHANGED <<disk, live, ghosts>> /\ upset \subseteq upset'
    BY <1>7, Numbers DEF ByHand
  <2> QED BY <1>0, <2>1 DEF NamedInv
<1>8. CASE UNCHANGED vars
  BY <1>8 DEF vars, NamedInv
<1> QED BY <1>1, <1>2, <1>3, <1>4, <1>5, <1>6, <1>7, <1>8 DEF Next

\* Everything the proofs carry from step to step.
ProvisioningInv == Typed /\ DownInv /\ HoldInv /\ NamedInv

\* It holds at the start and every step keeps it.
LEMMA AlwaysProvisioning == Spec => []ProvisioningInv
<1>1. Init => ProvisioningInv
  <2>1. Init => NamedInv
    BY Numbers DEF Init, NamedInv, NotLive, NoRow
  <2> QED BY <2>1, InitTyped, InitHolds DEF ProvisioningInv
<1>2. ProvisioningInv /\ [Next]_vars => ProvisioningInv'
  BY StepTyped, StepHolds, StepNames DEF ProvisioningInv
<1> QED BY <1>1, <1>2, PTL DEF Spec

\* A bot that polls is in the register: a crash at any step leaves nothing carrying
\* messages that a restart would not find (start_worker writes the row first).
THEOREM PollersAreRecorded == Spec => []PollerIsRecorded
<1>1. ProvisioningInv => PollerIsRecorded
  BY DEF ProvisioningInv, NamedInv, PollerIsRecorded
<1> QED BY <1>1, AlwaysProvisioning, PTL

\* A bot of ours at the name is never forgotten by both the journal and the register: a
\* removal drops what names the bot only after the bot is gone (tear_down, delete_bot).
THEOREM BotsAreRecorded == Spec => []BotIsRecorded
<1>1. ProvisioningInv => BotIsRecorded
  BY DEF ProvisioningInv, NamedInv, BotIsRecorded
<1> QED BY <1>1, AlwaysProvisioning, PTL

\* An active row can be served at the next start: its token is stored and is that of the
\* bot it names, whatever step a rebuild or a removal was cut off at (_forget_old_bot).
THEOREM ActiveIsServable == Spec => []ActiveCanBeServed
<1>1. ProvisioningInv => ActiveCanBeServed
  BY DEF ProvisioningInv, NamedInv, ActiveCanBeServed
<1> QED BY <1>1, AlwaysProvisioning, PTL

\* Reconciliation spends no slot: every bot is made by a walk the owner asked for, because
\* one that was resumed found the bot at its name and nobody takes it away meanwhile.
THEOREM RestartSpendsNoSlot == Spec => RestartMakesNoBot
<1>1. ASSUME ProvisioningInv, [Next]_vars PROVE [made' # made => crossed \/ walk.kind = "chosen"]_vars
  <2> SUFFICES ASSUME made' # made, ~crossed PROVE walk.kind = "chosen"
    BY DEF vars
  <2> USE DEF disk, process, bounds, history
  <2>1. CreateBot
    BY <1>1 DEF Next, WalkStep, Choose, Retry, Abandon, ResumeAttempt, AskTelegram, AskRemoval,
       Crash, Boot, PollRevoked, ByHand, RemovalStep, StopBridge, DeleteOwnedBot, RemoveLocal,
       CheckUsername, ForgetOldBot, NoteCreated, SaveToken, NoteSaved, ReadRow, RecordRow,
       AddWorker, StartRunner, BindRow, NoteStarted, OpenChat, Verify, NoteHealthy, vars
  <2>2. holder = 0 /\ walk.pc = "creating"
    BY <2>1 DEF CreateBot
  <2>3. WalkInv /\ walk.kind \in {"none", "chosen", "resuming"}
    BY <1>1 DEF ProvisioningInv, HoldInv, Typed, WalkSet
  <2> QED BY <2>2, <2>3, Numbers DEF WalkInv
<1> QED BY <1>1, AlwaysProvisioning, PTL DEF Spec, RestartMakesNoBot
=============================================================================
