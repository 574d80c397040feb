----------------------------- MODULE Onboarding -----------------------------
(***************************************************************************)
(* Connecting MAX from the guardian chat, and the one bridge worker.       *)
(*                                                                         *)
(* The guardian's bot keeps no inbox, so its updates are dispatched as     *)
(* tasks of their own: a tap, a message and a running login interleave at  *)
(* every await.  A task here is one of those: a login started by a phone   *)
(* number, a handler of «begin» or «cancel» that waits for the attempt it  *)
(* cancelled, a retried launch, a confirmed restart, or the resumption of  *)
(* the start.  One file holds the stage and the step; every write to it    *)
(* reads it again and rewinds a step that belongs to a live login, which   *)
(* is why a redraw that has to post a new message moves the step.          *)
(*                                                                         *)
(* MAX answers a login as it likes within MaxFaults; the owner taps what   *)
(* the screen shows, or, within MaxSlips, a button of the screen before    *)
(* it, or a command at a bad moment.                                       *)
(***************************************************************************)
EXTENDS Naturals, FiniteSets

CONSTANTS MaxTasks,   \* tasks alive at once (bound)
          MaxFaults,  \* refusals, timeouts, failed writes, crashes (bound)
          MaxSlips    \* late taps, cancellations, untimely commands (bound)

ASSUME OnboardingAssumption ==
    MaxTasks \in Nat \ {0} /\ MaxFaults \in Nat /\ MaxSlips \in Nat

VARIABLES
    stage, step,        \* the file: how far the deployment is, which question
    zone, phone,        \* the time zone and MAX's phone number are configured
    session,            \* MAX's session file exists
    known,              \* the number Telegram was logged in with can be read
    screen, before,     \* what the anchor shows, and what it showed before
    gateway, attempt,   \* MaxOnboarding's references to a login, 0 for none
    task,               \* the tasks: what each one is, and where it is
    lock, service,      \* the worker lock's holder; a worker is installed
    revision, question, \* the screen revision; the one a confirmation carries
    up,                 \* the process runs
    workers,            \* BridgeServices created and not stopped (history)
    torn,               \* a launch was cancelled inside start (history)
    crossed,            \* a tap met an earlier one or an old screen, or a
                        \* number was typed where a code was asked (history)
    faults, slips

config   == <<zone, phone, session, known>>
worker   == <<lock, service, workers, torn>>
login    == <<gateway, attempt>>
shown    == <<screen, before>>
restart  == <<revision, question>>
vars == <<stage, step, config, worker, task, login, shown, restart,
          up, crossed, faults, slips>>

Tasks == 1..MaxTasks

Stages == {"bootstrap_configured", "bot_running", "max_onboarding_pending",
           "max_session_valid", "bridge_running"}
Ephemeral == {"code", "password", "validating", "saving"}
Steps == Ephemeral \union
    {"idle", "timezone", "choice", "phone", "starting_bridge", "completed"}

Idle == [kind |-> "none", at |-> "free"]
Kinds  == {"none", "login", "begin", "cancel", "launch", "restart", "zone", "boot"}
\* Where a login is while MAX's client is open: connecting, waiting for one of
\* the two answers, or checking the one it was given.
Asking == {"code", "password"}
Checking == {"check_code", "check_password"}
Connecting == {"connect"} \union Asking \union Checking
Places == Connecting \union {"free", "abandoned", "sending", "saving",
                             "stop", "stopping", "waiting", "starting"}

(* The buttons of each screen that lead to a change of state.              *)
Buttons(s) ==
    CASE s \in {"welcome", "resume"}    -> {"begin", "cancel"}
      [] s = "timezone"                 -> {"zone"}
      [] s = "choice"                   -> {"same", "other", "cancel"}
      [] s \in {"phone", "code", "password"} -> {"cancel"}
      [] s \in {"code_again", "login_failed"} -> {"begin", "cancel"}
      [] s = "launch_failed"            -> {"launch"}
      [] s = "cancelled"                -> {"begin"}
      [] s = "home"                     -> {"restart"}
      [] s = "confirm"                  -> {"yes", "no"}
      [] OTHER                          -> {}
Busy == {"sending", "validating", "saving", "starting", "restarting"}
Screens == Busy \union
    {"none", "welcome", "resume", "timezone", "choice", "phone", "code",
     "code_again", "password", "login_failed", "launch_failed", "cancelled",
     "home", "confirm"}

\* A new installation, or one that served before, which may have no zone yet.
Init ==
    /\ zone \in BOOLEAN /\ known \in BOOLEAN
    /\ session \in BOOLEAN /\ phone = session
    /\ stage = IF session THEN "bridge_running" ELSE "bootstrap_configured"
    /\ step = IF session THEN "completed" ELSE "idle"
    /\ screen = (IF session THEN "home" ELSE "none") /\ before = "none"
    /\ gateway = 0 /\ attempt = 0
    /\ task = [t \in Tasks |-> Idle]
    /\ lock = 0 /\ service = FALSE /\ workers = 0 /\ torn = FALSE
    /\ revision = 0 /\ question = 0
    /\ up = FALSE /\ crossed = FALSE /\ faults = 0 /\ slips = 0

-----------------------------------------------------------------------------
(* Bounds, and the pieces the handlers share.                              *)

Fault == faults < MaxFaults /\ faults' = faults + 1
Slip  == slips < MaxSlips /\ slips' = slips + 1
NoFault == UNCHANGED faults
NoSlip  == UNCHANGED slips

\* What a write that does not name the step leaves there: it starts from the
\* file, with a step that only a live login could be at taken back.
Rewound(s) == IF s \in Ephemeral THEN "phone" ELSE s

Passes == before' = IF Buttons(screen) = {} THEN "none" ELSE screen

\* A write of the step st, then the screen s.  A first message, or one that
\* replaces an anchor Telegram no longer edits, is posted and its id written:
\* that write, too, rewinds.
Draw(s, st) ==
    /\ screen' = s
    /\ Passes
    /\ \/ screen = "none" /\ step' = Rewound(st) /\ NoFault
       \/ screen # "none" /\ step' = st /\ NoFault
       \/ screen # "none" /\ st \in Ephemeral /\ step' = Rewound(st) /\ Fault

\* A redraw that edits the anchor and writes nothing.
Redraw(s) == screen' = s /\ Passes

At(t) == task[t].at
Kind(t) == task[t].kind
Free(t) == At(t) = "free"

\* A button of the anchor as it is; or, by a slip, of the keyboard it has just
\* replaced, or again while an earlier tap is still being answered.
Pending == \E t \in Tasks : At(t) \in {"abandoned", "sending"}
Tapped(b) ==
    /\ up
    /\ \/ b \in Buttons(screen) /\ ~Pending /\ NoSlip /\ UNCHANGED crossed
       \/ /\ b \in IF Pending THEN Buttons(screen) \union Buttons(before)
                   ELSE Buttons(before) \ Buttons(screen)
          /\ Slip /\ crossed' = TRUE

Go(t, place) == task' = [task EXCEPT ![t] =
    IF place = "free" THEN Idle ELSE [@ EXCEPT !.at = place]]
Spawn(t, k, place) ==
    /\ Free(t) /\ \A u \in Tasks : u < t => ~Free(u)
    /\ task' = [task EXCEPT ![t] = [kind |-> k, at |-> place]]

CanServe == phone /\ session

\* The first screen after /start or a restart: what it asks depends on how far
\* the deployment is, not on which handler was last registered.
Offer ==
    IF ~zone
    THEN /\ stage' = IF stage = "bridge_running" THEN stage
                     ELSE "max_onboarding_pending"
         /\ Draw("timezone", "timezone")
    ELSE /\ UNCHANGED stage
         /\ Draw(IF stage = "bridge_running" THEN "home"
                 ELSE IF step \in {"phone", "code", "password"} THEN "resume"
                 ELSE "welcome", step)

Number == IF known THEN "choice" ELSE "phone"
AskForANumber == stage' = "max_onboarding_pending" /\ Draw(Number, Number)

-----------------------------------------------------------------------------
(* The process: it comes up, resumes what it finds, and goes down.         *)

Boot ==
    /\ ~up /\ up' = TRUE
    /\ IF CanServe
       THEN /\ Spawn(1, "boot", "waiting")
            /\ stage' = stage /\ step' = Rewound(step)
            /\ UNCHANGED shown /\ NoFault
       ELSE /\ UNCHANGED task
            /\ IF screen = "none"
               THEN /\ stage' = IF stage = "bootstrap_configured"
                                THEN "bot_running" ELSE stage
                    /\ step' = Rewound(step) /\ UNCHANGED shown /\ NoFault
               ELSE \E s \in {Rewound(step)} :
                    /\ stage' = IF zone \/ stage = "bridge_running" THEN stage
                                ELSE "max_onboarding_pending"
                    /\ IF ~zone THEN Draw("timezone", "timezone")
                       ELSE Draw(IF stage = "bridge_running" THEN "home"
                                 ELSE IF s = "phone" THEN "resume"
                                 ELSE "welcome", s)
    /\ UNCHANGED <<config, worker, login, restart, crossed, slips>>

\* A kill or an orderly stop: every task, lock and worker goes with it.
Crash ==
    /\ up /\ Fault /\ up' = FALSE
    /\ task' = [t \in Tasks |-> Idle]
    /\ lock' = 0 /\ service' = FALSE /\ workers' = 0
    /\ torn' = FALSE /\ crossed' = FALSE
    /\ gateway' = 0 /\ attempt' = 0
    /\ UNCHANGED <<stage, step, config, shown, restart, slips>>

\* /start, with or without the setup link.  The owner sends it when the chat is
\* empty, when the bridge is not up though its home is shown, or when starting
\* it keeps failing; otherwise it is a slip.
Lost == screen = "none" \/ (screen = "home" /\ ~service)
StartCommand ==
    /\ up
    /\ IF Lost \/ screen = "launch_failed" THEN NoSlip ELSE Slip
    /\ Offer
    /\ UNCHANGED <<config, worker, task, login, restart, up, crossed>>

-----------------------------------------------------------------------------
(* The questions before MAX is asked for anything.                         *)

\* _abandon_attempt that forgets the gateway and leaves the attempt running.
BadAbandon(t, k) ==
    /\ Free(t) /\ \A u \in Tasks : u < t => ~Free(u)
    /\ gateway' = 0 /\ attempt' = 0
    /\ task' = [task EXCEPT ![t] = [kind |-> k, at |-> "abandoned"]]
    /\ UNCHANGED worker

\* _abandon_attempt: the gateway's question fails, the attempt is cancelled
\* and awaited.  Cancelled while its worker starts, it leaves that worker: the
\* handler around service.start() catches Exception, which a cancellation is
\* not.
Abandon(t, k) ==
    /\ Free(t) /\ \A u \in Tasks : u < t => ~Free(u)
    /\ gateway' = 0 /\ attempt' = 0
    /\ task' = [u \in Tasks |->
          IF u = t THEN [kind |-> k, at |-> "abandoned"]
          ELSE IF u = attempt \/ (u = gateway /\ At(u) \in Asking) THEN Idle
          ELSE task[u]]
    /\ IF attempt # 0 /\ At(attempt) = "starting"
       THEN lock' = 0 /\ torn' = TRUE
       ELSE UNCHANGED <<lock, torn>>
    /\ UNCHANGED <<service, workers>>

\* «Начать», «Продолжить», «Попробовать снова».
Begin(t) ==
    /\ Tapped("begin") /\ Abandon(t, "begin")
    /\ UNCHANGED <<stage, step, config, shown, restart, up, faults>>

AfterBegin(t) ==
    /\ At(t) = "abandoned" /\ Kind(t) = "begin" /\ Go(t, "free")
    /\ IF zone THEN AskForANumber ELSE Offer
    /\ UNCHANGED <<config, worker, login, restart, up, crossed, slips>>

Cancel(t) ==
    /\ up /\ "cancel" \in Buttons(screen) \union Buttons(before) /\ Slip
    /\ crossed' = (crossed \/ "cancel" \notin Buttons(screen) \/ Pending)
    /\ Abandon(t, "cancel")
    /\ UNCHANGED <<stage, step, config, shown, restart, up, faults>>

AfterCancel(t) ==
    /\ At(t) = "abandoned" /\ Kind(t) = "cancel" /\ Go(t, "free")
    /\ UNCHANGED stage /\ Draw("cancelled", "idle")
    /\ UNCHANGED <<config, worker, login, restart, up, crossed, slips>>

\* A running worker is rebuilt in the new zone before anything is drawn.
AfterZone == IF stage = "bridge_running" THEN UNCHANGED stage /\ Draw("home", step)
             ELSE AskForANumber
SetTimezone(t) ==
    /\ Tapped("zone")
    /\ IF service THEN Spawn(t, "zone", "stop") ELSE t = 1 /\ UNCHANGED task
    /\ zone' = TRUE
    /\ IF service THEN UNCHANGED <<stage, step, shown, faults>> ELSE AfterZone
    /\ UNCHANGED <<phone, session, known, worker, login, restart, up>>

TimezoneFails ==
    /\ Tapped("zone") /\ Fault /\ Redraw("launch_failed")
    /\ UNCHANGED <<stage, step, config, worker, task, login, restart, up>>

AskOtherPhone ==
    /\ Tapped("other")
    /\ UNCHANGED stage /\ Draw("phone", "phone")
    /\ UNCHANGED <<config, worker, task, login, restart, up>>

-----------------------------------------------------------------------------
(* A login: the phone number, MAX's two questions, and what ends it.       *)

\* The gateway is installed before the screen is drawn, the task is created
\* after it.  The button writes which number it was, the message writes nothing.
StartLogin(t, st) ==
    /\ Spawn(t, "login", "sending")
    /\ gateway' = t /\ UNCHANGED <<attempt, stage>>
    /\ Draw("sending", st)

UseTelegramPhone(t) ==
    /\ Tapped("same") /\ StartLogin(t, Rewound(step))
    /\ UNCHANGED <<config, worker, restart, up>>

CreateAttempt(t) ==
    /\ At(t) = "sending" /\ Go(t, "connect") /\ attempt' = t
    /\ UNCHANGED <<stage, step, config, worker, gateway, shown, restart,
                   up, crossed, faults, slips>>

\* MAX wants the code, or the password of an account that has one; a wrong
\* answer is asked for again.
Prompt(t, q, s) ==
    /\ Go(t, q) /\ UNCHANGED stage /\ Draw(s, q)
    /\ UNCHANGED <<config, worker, login, restart, up, crossed, slips>>
AskCode(t) == At(t) = "connect" /\ ~session /\ Prompt(t, "code", "code")
AskPassword(t) == At(t) = "check_code" /\ Prompt(t, "password", "password")
AskAgain(t) ==
    /\ At(t) \in Checking /\ Fault
    /\ LET q == IF At(t) = "check_code" THEN "code" ELSE "password" IN
       /\ Go(t, q) /\ step' = q
       /\ Redraw(IF q = "code" THEN "code_again" ELSE "password")
    /\ UNCHANGED <<stage, config, worker, login, restart, up, crossed, slips>>

\* The owner types what the screen asks for.  The step, not the screen, says
\* what the text is taken for.
AnswerPhone(t) ==
    /\ up /\ screen = "phone" /\ step = "phone"
    /\ StartLogin(t, step)
    /\ crossed' = (crossed \/ \E u \in Tasks : At(u) \in Connecting)
    /\ UNCHANGED <<config, worker, restart, up, slips>>
AnswerMistaken ==
    /\ up /\ screen \in {"code", "code_again", "password"} /\ step = "phone"
    /\ UNCHANGED stage /\ Draw("phone", step)
    /\ UNCHANGED <<config, worker, task, login, restart, up, crossed, slips>>
Answer ==
    /\ up /\ screen \in {"phone", "code", "code_again", "password"}
    /\ step \in Asking
    /\ IF gateway = 0
       THEN /\ Draw("login_failed", step) /\ UNCHANGED task
       ELSE /\ At(gateway) \in Asking
            /\ Go(gateway, IF At(gateway) = "code" THEN "check_code"
                           ELSE "check_password")
            /\ Draw("validating", "validating")
    /\ UNCHANGED <<stage, config, worker, login, restart, up, crossed, slips>>

\* Whatever ends a login, its last act is to clear the reference to a gateway,
\* its own or not.
Ends(t, place) ==
    /\ Go(t, place) /\ gateway' = 0
    /\ attempt' = IF attempt = t /\ place = "free" THEN 0 ELSE attempt

\* PROMPT_TIMEOUT_SECONDS without an answer: the owner's delay, or certain for
\* a question no answer can reach.
GiveUp(t) ==
    /\ At(t) \in Asking /\ Ends(t, "free")
    /\ IF gateway = t THEN Fault ELSE NoFault
    /\ UNCHANGED <<stage, step, config, worker, shown, restart, up, crossed,
                   slips>>

\* A refused login that writes the step and draws nothing.
BadLoginFails(t) ==
    /\ At(t) \in Connecting /\ Fault /\ Ends(t, "free")
    /\ step' = "phone"
    /\ UNCHANGED <<stage, config, worker, shown, restart, up, crossed, slips>>

LoginFails(t) ==
    /\ At(t) \in Connecting /\ Fault /\ Ends(t, "free")
    /\ step' = "phone" /\ Redraw("login_failed")
    /\ UNCHANGED <<stage, config, worker, restart, up, crossed, slips>>

LoginSucceeds(t) ==
    /\ At(t) \in Checking \/ (At(t) = "connect" /\ session)
    /\ Ends(t, "saving") /\ session' = TRUE
    /\ stage' = "max_session_valid" /\ Draw("saving", "saving")
    /\ UNCHANGED <<zone, phone, known, worker, restart, up, crossed, slips>>

Finished(t) == attempt' = IF attempt = t THEN 0 ELSE attempt

\* The number goes to .env, the configuration is rewritten and loaded again.
Persist(t) ==
    /\ At(t) = "saving" /\ Go(t, "waiting")
    /\ phone' = TRUE /\ stage' = "max_session_valid"
    /\ Draw("starting", "starting_bridge")
    /\ UNCHANGED <<zone, session, known, worker, login, restart, up, crossed,
                   slips>>

PersistFails(t) ==
    /\ At(t) = "saving" /\ Go(t, "free") /\ Finished(t) /\ Fault
    /\ phone' \in {phone, TRUE}
    /\ Redraw("launch_failed")
    /\ UNCHANGED <<stage, step, zone, session, known, worker, gateway,
                   restart, up, crossed, slips>>

-----------------------------------------------------------------------------
(* The worker: started by a login, a retried launch, a restart or the      *)
(* start of the process, one at a time.                                    *)

RetryLaunch(t) ==
    /\ Tapped("launch") /\ Spawn(t, "launch", "waiting")
    /\ UNCHANGED stage /\ Draw("starting", "starting_bridge")
    /\ UNCHANGED <<config, worker, login, restart, up>>

\* What each of the five does once the worker is there; st and sg are the step
\* and the stage that _start_worker left.
Served(t, st, sg) ==
    /\ Go(t, "free") /\ Finished(t)
    /\ CASE Kind(t) \in {"login", "launch"} ->
              stage' = "bridge_running" /\ Draw("home", "completed")
         [] Kind(t) = "zone" /\ sg # "bridge_running" -> AskForANumber
         [] Kind(t) = "boot" /\ ~zone ->
              stage' = sg /\ Draw("timezone", "timezone")
         [] OTHER -> stage' = sg /\ Draw("home", st)

\* _start_worker without «if self._service is not None: return».
BadTakeLock(t) ==
    /\ At(t) = "waiting" /\ lock = 0
    /\ Go(t, "starting") /\ lock' = t /\ workers' = workers + 1
    /\ UNCHANGED <<stage, step, shown, attempt, faults, config, service, torn,
                   gateway, restart, up, crossed, slips>>

TakeLock(t) ==
    /\ At(t) = "waiting" /\ lock = 0
    /\ IF service
       THEN Served(t, step, stage) /\ UNCHANGED <<lock, workers>>
       ELSE /\ Go(t, "starting") /\ lock' = t /\ workers' = workers + 1
            /\ UNCHANGED <<stage, step, shown, attempt, faults>>
    /\ UNCHANGED <<config, service, torn, gateway, restart, up, crossed,
                   slips>>

Started(t) ==
    /\ At(t) = "starting" /\ CanServe
    /\ lock' = 0 /\ service' = TRUE
    /\ Served(t, Rewound(step), "bridge_running")
    /\ UNCHANGED <<config, workers, torn, gateway, restart, up, crossed,
                   slips>>

\* A start that raises and keeps the worker lock.
BadStartFails(t) ==
    /\ At(t) = "starting" /\ Go(t, "free") /\ Finished(t)
    /\ IF CanServe THEN Fault ELSE NoFault
    /\ workers' = workers - 1
    /\ Redraw(IF Kind(t) = "restart" THEN "home" ELSE "launch_failed")
    /\ UNCHANGED <<stage, step, config, lock, service, torn, gateway, restart,
                   up, crossed, slips>>

\* A start that raises takes its half-made worker down before the lock goes.
StartFails(t) ==
    /\ At(t) = "starting" /\ Go(t, "free") /\ Finished(t)
    /\ IF CanServe THEN Fault ELSE NoFault
    /\ lock' = 0 /\ workers' = workers - 1
    /\ IF Kind(t) = "zone" /\ stage # "bridge_running"
       THEN stage' = "max_onboarding_pending" /\ step' = Number /\ Redraw(Number)
       ELSE /\ Redraw(IF Kind(t) \in {"restart", "zone"} THEN "home"
                      ELSE "launch_failed")
            /\ UNCHANGED <<stage, step>>
    /\ UNCHANGED <<config, service, torn, gateway, restart, up, crossed, slips>>

\* /restart, or its button: nobody has a reason for it unless the bridge is
\* down.  The confirmation screen carries the revision it was drawn under.
OfferRestart ==
    /\ up /\ screen # "none" /\ UNCHANGED crossed
    /\ IF screen = "home" /\ ~service /\ CanServe /\ \A t \in Tasks : Free(t)
       THEN NoSlip ELSE Slip
    /\ revision' = revision + 1 /\ question' = revision + 1
    /\ UNCHANGED stage
    /\ Draw("confirm", Rewound(step))
    /\ UNCHANGED <<config, worker, task, login, up>>

ConfirmRestart(t) ==
    /\ Tapped("yes")
    /\ IF question = revision
       THEN /\ revision' = revision + 1
            /\ Spawn(t, "restart", "stop") /\ Draw("restarting", Rewound(step))
       ELSE /\ t = 1 /\ UNCHANGED <<revision, task>>
            /\ Draw("home", step)
    /\ UNCHANGED <<stage, config, worker, login, question, up>>

DeclineRestart ==
    /\ up /\ "no" \in Buttons(screen) /\ Slip /\ Draw("home", step)
    /\ UNCHANGED <<stage, config, worker, task, login, restart, up, crossed>>

\* A restart that stops a worker without looking whether there is one.
BadStopWorker(t) ==
    /\ At(t) = "stop" /\ lock = 0
    /\ service' = FALSE /\ lock' = t /\ Go(t, "stopping")
    /\ UNCHANGED <<stage, step, config, workers, torn, login, shown,
                   restart, up, crossed, faults, slips>>

StopWorker(t) ==
    /\ At(t) = "stop" /\ lock = 0
    /\ IF service THEN service' = FALSE /\ lock' = t /\ Go(t, "stopping")
       ELSE UNCHANGED <<service, lock>> /\ Go(t, "waiting")
    /\ UNCHANGED <<stage, step, config, workers, torn, login, shown,
                   restart, up, crossed, faults, slips>>

Stopped(t) ==
    /\ At(t) = "stopping" /\ Go(t, "waiting")
    /\ lock' = 0 /\ workers' = workers - 1
    /\ UNCHANGED <<stage, step, config, service, torn, login, shown,
                   restart, up, crossed, faults, slips>>

-----------------------------------------------------------------------------
Resumes(t) ==
    \/ AfterBegin(t) \/ AfterCancel(t) \/ CreateAttempt(t)
    \/ AskCode(t) \/ AskPassword(t) \/ LoginSucceeds(t) \/ Persist(t)
    \/ TakeLock(t) \/ Started(t) \/ StopWorker(t) \/ Stopped(t)
    \/ (~CanServe /\ StartFails(t)) \/ (gateway # t /\ GiveUp(t))
Misfires(t) ==
    \/ AskAgain(t) \/ GiveUp(t) \/ LoginFails(t) \/ PersistFails(t)
    \/ StartFails(t)
Types == (\E t \in Tasks : AnswerPhone(t)) \/ AnswerMistaken \/ Answer
Taps ==
    \/ \E t \in Tasks : Begin(t) \/ UseTelegramPhone(t) \/ RetryLaunch(t)
                         \/ ConfirmRestart(t) \/ Cancel(t)
                         \/ SetTimezone(t)
    \/ TimezoneFails \/ AskOtherPhone \/ OfferRestart \/ DeclineRestart

Next ==
    \/ Boot \/ Crash \/ StartCommand \/ Types \/ Taps
    \/ \E t \in Tasks : Resumes(t) \/ Misfires(t)

Spec == Init /\ [][Next]_vars

\* The process is started again, its tasks run on, the owner does what the
\* screen says, and sends /start if a launch that is retried keeps failing.
\* MAX answers a login, and the timer of a question runs out in the end.
Proceeds == /\ slips' = slips
            /\ Types \/ Taps \/ (StartCommand /\ Lost)
Fairness ==
    /\ WF_vars(Boot)
    /\ \A t \in Tasks : WF_vars(Resumes(t))
    /\ WF_vars(Proceeds)
    /\ SF_vars(StartCommand /\ screen = "launch_failed")
FairSpec == Spec /\ Fairness

-----------------------------------------------------------------------------
(* The type invariant.                                                     *)
TypeOK ==
    /\ stage \in Stages /\ step \in Steps
    /\ {zone, phone, session, known, service, up, torn, crossed} \subseteq BOOLEAN
    /\ {screen, before} \subseteq Screens
    /\ {gateway, attempt, lock} \subseteq Tasks \union {0}
    /\ task \in [Tasks -> [kind : Kinds, at : Places]]
    /\ {workers, revision, question} \subseteq Nat
    /\ faults \in 0..MaxFaults /\ slips \in 0..MaxSlips

(* At most one BridgeService lives, and the one that does is installed or  *)
(* in the hands of the task that holds the worker lock, whichever of the   *)
(* four ways of starting it race; only a launch cancelled inside start()   *)
(* leaves one behind.                                                      *)
OneWorker ==
    torn \/ workers = (IF service \/ lock # 0 THEN 1 ELSE 0)

(* A screen without a button is only shown while somebody is at work who   *)
(* will draw the next one: the owner is never left with nothing to press.  *)
NeverStranded ==
    up /\ screen \in Busy => \E t \in Tasks : ~Free(t)

(* An answer goes to the login that asked: while no tap has crossed a      *)
(* login, the gateway that takes a code is one that waits for a code, and  *)
(* every login that waits is the one the gateway belongs to.               *)
AnswerFits ==
    ~crossed =>
        /\ \A t \in Tasks : At(t) \in Asking => gateway = t
        /\ step \in Asking /\ gateway # 0 =>
              At(gateway) \in {step} \union {"sending", "connect"}

(* Every refused, interrupted or forgotten login, failed launch and        *)
(* restart ends with the bridge running, if the owner keeps answering.     *)
OwnerGetsIn == <>[](up /\ service)
=============================================================================
