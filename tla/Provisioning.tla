---------------------------- MODULE Provisioning ----------------------------
(***************************************************************************)
(* One contact's bridge being made, mended and taken apart: the journal of *)
(* attempts (provisioning/journal.py), the walk over its steps (batch.py), *)
(* the claim that keeps two walks apart (coordinator.py), reconciliation   *)
(* at start-up (reconcile.py), the owner's removals (flow.py), and the     *)
(* running process they all act on (LiveBridgeGateway, BotRegistry).       *)
(*                                                                         *)
(* The contact's username is a function of its ids, so there is one name   *)
(* and at most one bot that holds it.  Bots are made over the owner's own  *)
(* session (MtprotoProvisioner), the path the service prefers.             *)
(***************************************************************************)
EXTENDS Integers, Sequences

CONSTANTS
    MaxBots,   \* bound: bots made at the name, one after another
    MaxFaults, \* bound: crashes, refused or unanswered calls, changes made by hand
    MaxActs    \* bound: removals, abandonments and retries the owner asks for

ASSUME ProvisioningAssumption == {MaxBots, MaxFaults, MaxActs} \subseteq Nat /\ MaxBots > 0

VARIABLES
    holder,   \* Telegram: the bot that holds the name; 0 when it is free
    made,     \* Telegram: how many bots were made there
    entry,    \* journal: the attempt, its bot's id and whether a token was saved
    token,    \* bots.env: whose token is stored
    row,      \* bridges: state and telegram_bot_id
    up,       \* the process runs
    live,     \* the registry's bridge and whether its runner polls
    ghosts,   \* bots polled by runners no registry knows
    walk,     \* the walk that holds the contact's claim
    recon,    \* a reconciliation on its way to the claim
    removal,  \* the steps a removal has yet to take
    faults, acts,
    crossed,  \* history: something changed under a walk that did not make the change
    upset     \* history: the name's bot went away (gone), a row kept an old one (bound)

disk == <<entry, token, row>>
process == <<up, live, ghosts, walk, recon, removal>>
bounds == <<faults, acts>>
history == <<crossed, upset>>
vars == <<holder, made, disk, process, bounds, history>>

-----------------------------------------------------------------------------
(* State *)

Ours == 1..MaxBots
Stranger == MaxBots + 1

Resumable == {"pending", "awaiting", "bot_created", "token_saved", "worker_started",
              "start_sent", "failed_retryable"}
Terminal == {"healthy", "failed_permanent", "abandoned"}

NoEntry == [state |-> "none", bot |-> 0, saved |-> FALSE]
NoRow == [state |-> "none", bot |-> 0]
NotLive == [bot |-> 0, polls |-> FALSE]

\* had: token_env of the entry the walk set out with; got, id: the bot whose token create_bot gave, and the id it named;
\* known: the row's bot when start_worker read it; own: the walk's own worker is the
\* registry's.
NoWalk == [pc |-> "idle", kind |-> "none", had |-> FALSE,
           got |-> 0, id |-> 0, known |-> 0, own |-> FALSE]
NoRemoval == << >>

Init ==
    /\ holder = 0 /\ made = 0
    /\ entry = NoEntry /\ token = 0 /\ row = NoRow
    /\ up = TRUE /\ live = NotLive /\ ghosts = {}
    /\ walk = NoWalk /\ recon = "idle" /\ removal = NoRemoval
    /\ faults = 0 /\ acts = 0
    /\ crossed = FALSE /\ upset = {}

Fault == faults < MaxFaults /\ faults' = faults + 1
Act == acts < MaxActs /\ acts' = acts + 1

Busy == walk.pc # "idle" \/ recon # "idle"
Goes(pc) == walk' = [walk EXCEPT !.pc = pc]
Ends == walk' = NoWalk

-----------------------------------------------------------------------------
(* The journal and the registry *)

\* note: changes the entry, and raises when there is none.
Note(state) == entry.state # "none" /\ entry' = [entry EXCEPT !.state = state]

\* A note of the walk: a KeyError ends the walk.
WalkNotes(new, pc) ==
    IF entry.state = "none" THEN Ends /\ UNCHANGED entry ELSE entry' = new /\ Goes(pc)

Fails(state) ==
    /\ Ends
    /\ entry' = IF entry.state = "none" THEN entry ELSE [entry EXCEPT !.state = state]

BadBegun == IF entry.state = "none"
            THEN [NoEntry EXCEPT !.state = "pending", !.bot = holder] ELSE entry
\* begin: absent, finished, terminal, still in flight.
Begun ==
    CASE entry.state = "none" -> [NoEntry EXCEPT !.state = "pending"]
      [] entry.state \in {"failed_permanent", "abandoned"} -> [entry EXCEPT !.state = "pending"]
      [] OTHER -> entry

\* stop_bridge and registry.remove: out of the registry, and what polls stops.
StopLive == live' = NotLive

IsHealthy == live.bot # 0 /\ live.polls

\* upsert of a row in provisioning: an id that is not known does not overwrite one.
Upsert(bot) == row' = [state |-> "provisioning", bot |-> IF bot = 0 THEN row.bot ELSE bot]

\* What a start finds to reconcile.
Unfinished == entry.state \in Resumable

-----------------------------------------------------------------------------
(* Setting out *)

BadSetsOut(e, kind) ==
    IF walk.pc # "idle" \/ e.state \in Terminal
    THEN entry' = e /\ UNCHANGED walk
    ELSE /\ entry' = e
         /\ walk' = [NoWalk EXCEPT !.pc = "checking", !.kind = kind, !.had = e.saved]

\* run, once the journal was read as e: skip what is settled, reopen what went away,
\* take the claim; a caller that finds it held waits and does nothing.
SetsOut(e, kind) ==
    IF walk.pc # "idle" \/ (e.state \in Terminal /\ (e.state # "healthy" \/ IsHealthy))
    THEN entry' = e /\ UNCHANGED walk
    ELSE /\ entry' = IF e.state = "healthy" THEN [e EXCEPT !.state = "pending"] ELSE e
         /\ walk' = [NoWalk EXCEPT !.pc = "checking", !.kind = kind, !.had = e.saved]

\* commit, provision_option: the owner chooses the contact.
Choose ==
    /\ up /\ SetsOut(Begun, "chosen")
    /\ UNCHANGED <<holder, made, token, row, up, live, ghosts, recon, removal, bounds>>
    /\ crossed' = (crossed \/ (walk.pc = "idle" /\ removal # NoRemoval)) /\ UNCHANGED upset

\* retry, from a result screen.
Retry ==
    /\ up /\ Act
    /\ entry.state \notin {"none", "failed_permanent"}
    /\ SetsOut([entry EXCEPT !.state = "pending"], "chosen")
    /\ crossed' = (crossed \/ Busy \/ removal # NoRemoval)
    /\ UNCHANGED <<holder, made, token, row, up, live, ghosts, recon, removal, faults, upset>>

\* abandon_attempt.
Abandon ==
    /\ up /\ Act
    /\ Note("abandoned")
    /\ crossed' = (crossed \/ Busy)
    /\ UNCHANGED <<holder, made, token, row, process, faults, upset>>

\* _resume_attempt: the reconciliation of start-up, asked for.
ResumeAttempt ==
    /\ up /\ recon = "idle" /\ Unfinished
    /\ recon' = "asking"
    /\ crossed' = (crossed \/ removal # NoRemoval)
    /\ UNCHANGED <<holder, made, disk, up, live, ghosts, walk, removal, bounds, upset>>

BadAskTelegram ==
    /\ recon = "asking" /\ recon' = "idle" /\ entry.state # "none"
    /\ IF holder = Stranger THEN Note("failed_permanent") /\ UNCHANGED walk
                            ELSE SetsOut(entry, "resuming")
    /\ UNCHANGED <<holder, made, token, row, up, live, ghosts, removal, bounds, history>>

\* _reconcile: what Telegram says of the name, asked before the claim; _resume: the
\* claim, then the same walk over this contact alone.
AskTelegram ==
    /\ recon = "asking" /\ recon' = "idle"
    /\ \/ Fault /\ UNCHANGED <<entry, walk, crossed>>
       \/ /\ holder = Stranger
          /\ IF entry.state = "none" THEN UNCHANGED entry ELSE Note("failed_permanent")
          /\ UNCHANGED <<faults, walk, crossed>>
       \/ holder = 0 /\ UNCHANGED <<entry, walk, faults, crossed>>
       \/ /\ holder \in Ours /\ UNCHANGED faults
          /\ IF entry.state = "none" THEN UNCHANGED <<entry, walk>> ELSE SetsOut(entry, "resuming")
          /\ crossed' = (crossed \/ (walk.pc = "idle" /\ removal # NoRemoval))
    /\ UNCHANGED <<holder, made, token, row, up, live, ghosts, removal, acts, upset>>

-----------------------------------------------------------------------------
(* The walk: a bot *)

\* check_username and what it decides.  The preflight finds no conflict: one contact.
CheckUsername ==
    /\ walk.pc = "checking"
    /\ \/ Fault /\ Fails("failed_retryable")
       \/ /\ UNCHANGED faults
          /\ CASE holder = Stranger -> Fails("failed_permanent")
               [] holder = 0 -> WalkNotes([entry EXCEPT !.state = "awaiting"], "creating")
               [] OTHER -> /\ UNCHANGED entry
                           /\ walk' = [walk EXCEPT !.pc =
                                        IF walk.had THEN "launching" ELSE "creating"]
    /\ UNCHANGED <<holder, made, token, row, up, live, ghosts, recon, removal, acts, history>>

\* create_bot: the token of a bot we hold already, or a new one; a refusal (a flood
\* wait, the account's limit) or an answer that never came, with or without a bot.
CreateBot ==
    /\ walk.pc = "creating"
    /\ \/ /\ holder \in Ours
          /\ walk' = [walk EXCEPT !.pc = "unbinding", !.got = holder, !.id = holder]
          /\ UNCHANGED <<holder, made, entry, faults>>
       \/ /\ holder = 0 /\ made < MaxBots
          /\ made' = made + 1 /\ holder' = made'
          /\ \/ /\ walk' = [walk EXCEPT !.pc = "unbinding", !.got = made', !.id = 0]
                /\ UNCHANGED <<entry, faults>>
             \/ Fault /\ Fails("failed_retryable")
       \/ /\ holder = Stranger /\ Fails("failed_permanent")
          /\ UNCHANGED <<holder, made, faults>>
       \/ /\ Fault /\ \E s \in {"failed_retryable", "failed_permanent"} : Fails(s)
          /\ UNCHANGED <<holder, made>>
    /\ UNCHANGED <<token, row, up, live, ghosts, recon, removal, acts, history>>

BadUnbound(r) == r
\* _forget_old_bot: the row lets go of a bot that is not the one the walk ended with.
\* Its failure is only logged.
Unbound(r) == IF walk.id # 0 /\ r.bot = walk.id THEN r ELSE [r EXCEPT !.bot = 0]
ForgetOldBot ==
    /\ walk.pc = "unbinding" /\ Goes("made")
    /\ \/ row' = Unbound(row) /\ UNCHANGED <<faults, upset>>
       \/ Unbound(row) # row /\ Fault /\ upset' = upset \cup {"bound"} /\ UNCHANGED row
    /\ UNCHANGED <<holder, made, entry, token, up, live, ghosts, recon, removal, acts, crossed>>

\* The id goes with the state, and never as None over a known one.
NoteCreated ==
    /\ walk.pc = "made"
    /\ WalkNotes([entry EXCEPT !.state = "bot_created",
                               !.bot = IF walk.id = 0 THEN @ ELSE walk.id], "saving")
    /\ UNCHANGED <<holder, made, token, row, up, live, ghosts, recon, removal, bounds, history>>

SaveToken ==
    /\ walk.pc = "saving"
    /\ \/ token' = walk.got /\ Goes("saved") /\ UNCHANGED <<entry, faults>>
       \/ Fault /\ Fails("failed_retryable") /\ UNCHANGED token
    /\ UNCHANGED <<holder, made, row, up, live, ghosts, recon, removal, acts, history>>

\* The note, then stop_bridge.  The wipe of a reused bot's chat leaves nothing here.
NoteSaved ==
    /\ walk.pc = "saved"
    /\ WalkNotes([entry EXCEPT !.state = "token_saved", !.saved = TRUE], "launching")
    /\ IF entry.state = "none" THEN UNCHANGED live ELSE StopLive
    /\ UNCHANGED <<holder, made, token, row, up, ghosts, recon, removal, bounds, history>>

-----------------------------------------------------------------------------
(* The walk: a worker *)

\* start_worker reads the row, and refuses to start without a token.
ReadRow ==
    /\ walk.pc = "launching"
    /\ IF token = 0 THEN Fails("failed_retryable")
       ELSE walk' = [walk EXCEPT !.pc = "recording", !.known = row.bot] /\ UNCHANGED entry
    /\ UNCHANGED <<holder, made, token, row, up, live, ghosts, recon, removal, bounds, history>>

BadRecordRow ==
    /\ walk.pc = "recording"
    /\ StopLive /\ Goes("adding")
    /\ UNCHANGED <<holder, made, disk, up, ghosts, recon, removal, bounds, history>>

\* Durable row first; then what is registered under the name goes.
RecordRow ==
    /\ walk.pc = "recording"
    /\ Upsert(walk.known)
    /\ StopLive /\ Goes("adding")
    /\ UNCHANGED <<holder, made, entry, token, up, ghosts, recon, removal, bounds, history>>

\* add, under the registry's lock: getMe proves which bot the token is.
Admits(known) == token # 0 /\ token = holder /\ (known # 0 => known = token)
AddWorker ==
    /\ walk.pc = "adding"
    /\ \/ /\ live.bot = 0 /\ Admits(walk.known)
          /\ live' = [bot |-> token, polls |-> FALSE]
          /\ walk' = [walk EXCEPT !.pc = "starting", !.got = token, !.own = TRUE]
          /\ UNCHANGED <<entry, faults>>
       \/ /\ ~(live.bot = 0 /\ Admits(walk.known))
          /\ Fails("failed_retryable") /\ UNCHANGED <<live, faults>>
       \/ Fault /\ Fails("failed_retryable") /\ UNCHANGED live
    /\ UNCHANGED <<holder, made, token, row, up, ghosts, recon, removal, acts, history>>

\* After the lock and the menu the runner starts, registered still or not.
StartRunner ==
    /\ walk.pc = "starting" /\ Goes("binding")
    /\ IF walk.own THEN live' = [live EXCEPT !.polls = TRUE] /\ UNCHANGED ghosts
                   ELSE ghosts' = ghosts \cup {walk.got} /\ UNCHANGED live
    /\ UNCHANGED <<holder, made, disk, up, recon, removal, bounds, history>>

\* The second upsert: which bot getMe proved.
BindRow ==
    /\ walk.pc = "binding" /\ Goes("started")
    /\ Upsert(walk.got)
    /\ UNCHANGED <<holder, made, entry, token, up, live, ghosts, recon, removal, bounds, history>>

NoteStarted ==
    /\ walk.pc = "started"
    /\ WalkNotes([entry EXCEPT !.state = "worker_started"], "opening")
    /\ UNCHANGED <<holder, made, token, row, up, live, ghosts, recon, removal, bounds, history>>

\* _open_chat: /start to the bot the journal names, to the username when it names none.
OpenChat ==
    /\ walk.pc = "opening"
    /\ \/ /\ entry.state = "none" \/ entry.bot \in {0, holder}
          /\ WalkNotes([entry EXCEPT !.state = "start_sent"], "verifying")
          /\ UNCHANGED faults
       \/ /\ entry.state # "none" /\ entry.bot \notin {0, holder}
          /\ Fails("failed_retryable") /\ UNCHANGED faults
       \/ Fault /\ Fails("failed_retryable")
    /\ UNCHANGED <<holder, made, token, row, up, live, ghosts, recon, removal, acts, history>>

\* _verify: a worker that polls makes the row active.
Verify ==
    /\ walk.pc = "verifying"
    /\ \/ /\ IsHealthy
          /\ row' = IF row.state = "none" THEN row ELSE [row EXCEPT !.state = "active"]
          /\ Goes("settling") /\ UNCHANGED <<entry, faults>>
       \/ ~IsHealthy /\ Fails("failed_retryable") /\ UNCHANGED <<row, faults>>
       \/ Fault /\ Fails("failed_retryable") /\ UNCHANGED row
    /\ UNCHANGED <<holder, made, token, up, live, ghosts, recon, removal, acts, history>>

NoteHealthy ==
    /\ walk.pc = "settling" /\ Fails("healthy")
    /\ UNCHANGED <<holder, made, token, row, up, live, ghosts, recon, removal, bounds, history>>

WalkStep ==
    \/ CheckUsername \/ CreateBot \/ ForgetOldBot \/ NoteCreated \/ SaveToken \/ NoteSaved
    \/ ReadRow \/ RecordRow \/ AddWorker \/ StartRunner \/ BindRow \/ NoteStarted
    \/ OpenChat \/ Verify \/ NoteHealthy

-----------------------------------------------------------------------------
(* Removals *)

Disconnect == <<"stop", "disable", "forget">>
DeleteBot == <<"stop", "delete", "forget", "unbind", "disable">>
BadTearDown == <<"stop", "purge", "forget", "delete", "unset">>
TearDown == <<"stop", "delete", "purge", "forget", "unset">>
Plans == {Disconnect, DeleteBot, TearDown}

\* disconnect, delete_bot, tear_down begin by finding the row.
AskRemoval ==
    /\ up /\ removal = NoRemoval /\ row.state # "none" /\ Act
    /\ removal' \in Plans
    /\ crossed' = (crossed \/ Busy)
    /\ UNCHANGED <<holder, made, disk, up, live, ghosts, walk, recon, faults, upset>>

Removing(step) == removal # NoRemoval /\ Head(removal) = step /\ removal' = Tail(removal)

StopBridge ==
    /\ Removing("stop") /\ StopLive /\ walk' = [walk EXCEPT !.own = FALSE]
    /\ UNCHANGED <<holder, made, disk, up, ghosts, recon, bounds, history>>

\* delete_owned_bot proves the bot ours first; a refusal stops the removal here.
DeleteOwnedBot ==
    /\ removal # NoRemoval /\ Head(removal) = "delete"
    /\ \/ holder = 0 /\ removal' = Tail(removal) /\ UNCHANGED <<holder, faults, upset>>
       \/ /\ holder \in Ours /\ holder' = 0 /\ upset' = upset \cup {"gone"}
          /\ removal' = Tail(removal) /\ UNCHANGED faults
       \/ holder = Stranger /\ removal' = NoRemoval /\ UNCHANGED <<holder, faults, upset>>
       \/ Fault /\ removal' = NoRemoval /\ UNCHANGED <<holder, upset>>
    /\ UNCHANGED <<made, disk, up, live, ghosts, walk, recon, acts, crossed>>

RemoveLocal ==
    /\ \/ /\ Removing("disable")
          /\ row' = IF row.state = "none" THEN row ELSE [row EXCEPT !.state = "disabled"]
          /\ UNCHANGED <<entry, token>>
       \/ Removing("unbind") /\ row' = [row EXCEPT !.bot = 0] /\ UNCHANGED <<entry, token>>
       \/ Removing("purge") /\ row' = NoRow /\ UNCHANGED <<entry, token>>
       \/ Removing("forget") /\ entry' = NoEntry /\ UNCHANGED <<token, row>>
       \/ Removing("unset") /\ token' = 0 /\ UNCHANGED <<entry, row>>
    /\ UNCHANGED <<holder, made, up, live, ghosts, walk, recon, bounds, history>>

RemovalStep == StopBridge \/ DeleteOwnedBot \/ RemoveLocal

-----------------------------------------------------------------------------
(* The process and the world around it *)

Crash ==
    /\ up /\ Fault
    /\ up' = FALSE /\ live' = NotLive /\ ghosts' = {}
    /\ walk' = NoWalk /\ recon' = "idle" /\ removal' = NoRemoval
    /\ UNCHANGED <<holder, made, disk, acts, history>>

\* start: the active row with a token comes up once getMe has proved its bot; runners
\* start; then what the journal left unfinished is reconciled.
Served == row.state = "active" /\ Admits(row.bot)
Boot ==
    /\ ~up /\ up' = TRUE
    /\ IF Served THEN /\ live' = [bot |-> token, polls |-> TRUE]
                      /\ row' = [row EXCEPT !.bot = token]
                 ELSE UNCHANGED <<live, row>>
    /\ recon' = IF Unfinished THEN "asking" ELSE "idle"
    /\ UNCHANGED <<holder, made, entry, token, ghosts, walk, removal, bounds, history>>

\* A poller whose token was revoked with its bot stops.
PollRevoked ==
    /\ \/ live.polls /\ live.bot # holder /\ live' = [live EXCEPT !.polls = FALSE]
          /\ UNCHANGED ghosts
       \/ \E b \in ghosts : b # holder /\ ghosts' = ghosts \ {b} /\ UNCHANGED live
    /\ UNCHANGED <<holder, made, disk, up, walk, recon, removal, bounds, history>>

\* In @BotFather by hand: the bot deleted, or the free name taken by somebody else.
ByHand ==
    /\ Fault
    /\ holder' = IF holder = 0 THEN Stranger ELSE 0
    /\ upset' = upset \cup {"gone"}
    /\ crossed' = (crossed \/ Busy \/ removal # NoRemoval)
    /\ UNCHANGED <<made, disk, process, acts>>

Next ==
    \/ Choose \/ Retry \/ Abandon \/ ResumeAttempt \/ AskTelegram
    \/ WalkStep \/ AskRemoval \/ RemovalStep
    \/ Crash \/ Boot \/ PollRevoked \/ ByHand

Spec == Init /\ [][Next]_vars

\* Each task runs on; the process is started again; the owner keeps choosing the contact.
FairSpec ==
    /\ Spec /\ WF_vars(WalkStep) /\ WF_vars(RemovalStep) /\ WF_vars(Boot)
    /\ WF_vars(AskTelegram) /\ WF_vars(PollRevoked) /\ WF_vars(Choose)

-----------------------------------------------------------------------------
(* Properties *)

WalkStates == {"idle", "checking", "creating", "unbinding", "made", "saving", "saved",
               "launching", "recording", "adding", "starting", "binding", "started",
               "opening", "verifying", "settling"}

\* The values the variables of the journal, the register and the process may take.
TypeOK ==
    /\ holder \in 0..Stranger /\ made \in 0..MaxBots
    /\ entry \in [state : {"none"} \cup Resumable \cup Terminal, bot : 0..MaxBots, saved : BOOLEAN]
    /\ token \in 0..MaxBots
    /\ row \in [state : {"none", "provisioning", "active", "disabled"}, bot : 0..MaxBots]
    /\ up \in BOOLEAN /\ live \in [bot : 0..MaxBots, polls : BOOLEAN] /\ ghosts \subseteq Ours
    /\ walk \in [pc : WalkStates, kind : {"none", "chosen", "resuming"}, had : BOOLEAN,
                 got : 0..MaxBots, id : 0..MaxBots, known : 0..MaxBots,
                 own : BOOLEAN]
    /\ recon \in {"idle", "asking"}
    /\ \E plan \in Plans : \E n \in 0..Len(plan) : removal = SubSeq(plan, n + 1, Len(plan))
    /\ faults \in 0..MaxFaults /\ acts \in 0..MaxActs
    /\ crossed \in BOOLEAN /\ upset \subseteq {"gone", "bound"}

\* A bot that polls is in the register: a crash at any step leaves nothing carrying
\* messages that a restart would not find (start_worker writes the row first).
PollerIsRecorded ==
    crossed \/ (/\ live.bot # 0 => /\ row.state \in {"provisioning", "active"}
                                   /\ row.bot \in {0, live.bot}
                /\ ghosts = {})

\* A bot of ours at the name is never forgotten by both the journal and the register:
\* a removal drops what names the bot only after the bot is gone.
BotIsRecorded ==
    crossed \/ (holder \in Ours => entry.state # "none" \/ row.state # "none")

\* An active row can be served at the next start: its token is stored and is that of
\* the bot it names, whatever step a rebuild or a removal was cut off at.
ActiveCanBeServed ==
    crossed \/ "bound" \in upset \/ (row.state = "active" => token # 0 /\ row.bot \in {0, token})

\* Reconciliation spends no slot: every bot is made by a walk the owner asked for.
RestartMakesNoBot ==
    [][made' # made => crossed \/ walk.kind = "chosen"]_vars

\* Unless its bot was deleted under it, a bridge chosen again and again ends up serving:
\* no crash, refusal, abandonment or removal leaves a state that a retry cannot finish.
Serving == entry.state = "healthy" /\ row.state = "active" /\ IsHealthy
RetriesSucceed == [](~crossed /\ upset = {}) => <>[]Serving

=============================================================================
