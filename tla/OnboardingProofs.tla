-------------------------- MODULE OnboardingProofs --------------------------
(***************************************************************************)
(* What holds of the connecting of MAX for any number of interleaved       *)
(* tasks, faults and slips of the owner.  One worker: who is in the midst  *)
(* of starting or stopping one holds the lock (WorkerInv).  Something to   *)
(* press: a screen without a button has a task that is not itself waiting  *)
(* for an answer (WorkInv).  The answer that fits: until taps cross, one   *)
(* login lives at a time, which rests on what each screen implies about    *)
(* the time zone, the session and the tasks (ScreenInv, LoginInv, FitInv). *)
(***************************************************************************)
EXTENDS Onboarding, TLAPS

Live(t) == At(t) \in Connecting \union {"sending"}
Holding == {"starting", "stopping"}

\* Who starts or stops the worker holds its lock; the count is of what is installed
\* or in those hands, but for a launch that was torn out of start.
WorkerInv ==
    /\ \A t \in Tasks : At(t) \in Holding <=> lock = t
    /\ lock # 0 => ~service
    /\ workers >= (IF service \/ lock # 0 THEN 1 ELSE 0)
    /\ OneWorker
    /\ \A t \in Tasks : At(t) \in {"stop", "stopping"} => Kind(t) \in {"restart", "zone"}
    /\ \A t \in Tasks : At(t) = "sending" => Kind(t) = "login"
    /\ \A t \in Tasks : At(t) = "free" => Kind(t) = "none"
    /\ attempt # 0 => Kind(attempt) = "login"

-----------------------------------------------------------------------------
(* Types *)

\* The places of a task and the screens are what they are listed as.
LEMMA Listed ==
    /\ 0 \notin Tasks /\ 1 \in Tasks
    /\ Asking \subseteq Places /\ Checking \subseteq Places /\ Connecting \subseteq Places
    /\ "free" \notin Connecting /\ Asking \subseteq Connecting /\ Checking \subseteq Connecting
    /\ Asking \subseteq Steps /\ Busy \subseteq Screens
    /\ Number \in Steps \cap Screens
  BY OnboardingAssumption
  DEF Tasks, Asking, Checking, Connecting, Places, Steps, Ephemeral, Busy, Screens, Number

\* A step that is taken back is a step (STEPS, _EPHEMERAL).
LEMMA RewindsToAStep ==
    ASSUME NEW st \in Steps
    PROVE  /\ Rewound(st) \in Steps /\ Rewound(st) \notin Ephemeral
           /\ Rewound(st) = st \/ Rewound(st) = "phone"
  BY DEF Rewound, Steps, Ephemeral

\* A screen that is drawn, and what it does to the step (_draw, _post).
LEMMA DrawWrites ==
    ASSUME TypeOK, NEW s \in Screens, NEW st \in Steps, Draw(s, st)
    PROVE  /\ screen' = s /\ screen' \in Screens
           /\ before' \in Screens /\ (before' = "none" \/ before' = screen)
           /\ step' \in Steps /\ (step' = st \/ step' = Rewound(st))
           /\ faults' \in 0..MaxFaults
<1>1. screen \in Screens /\ faults \in 0..MaxFaults /\ MaxFaults \in Nat
  BY OnboardingAssumption DEF TypeOK
<1>2. faults' \in 0..MaxFaults
  BY <1>1 DEF Draw, NoFault, Fault
<1>3. before' \in Screens /\ (before' = "none" \/ before' = screen)
  BY <1>1 DEF Draw, Passes, Screens
<1> QED BY <1>2, <1>3, RewindsToAStep DEF Draw

\* A screen that is edited in place.
LEMMA RedrawWrites ==
    ASSUME TypeOK, NEW s \in Screens, Redraw(s)
    PROVE  /\ screen' = s /\ screen' \in Screens
           /\ before' \in Screens /\ (before' = "none" \/ before' = screen)
<1>1. screen \in Screens
  BY DEF TypeOK
<1> QED BY <1>1 DEF Redraw, Passes, Screens

\* What is counted against the bounds stays within them.
LEMMA Counted ==
    ASSUME TypeOK
    PROVE  /\ Fault \/ NoFault => faults' \in 0..MaxFaults
           /\ Slip \/ NoSlip => slips' \in 0..MaxSlips
  BY OnboardingAssumption DEF TypeOK, Fault, NoFault, Slip, NoSlip

\* A tap on a button costs at most a slip.
LEMMA TapCounts ==
    ASSUME TypeOK, NEW b, Tapped(b)
    PROVE  slips' \in 0..MaxSlips /\ crossed' \in BOOLEAN /\ up
  BY Counted DEF Tapped, TypeOK

\* A task that goes on to its next await, or ends.
LEMMA TaskGoes ==
    ASSUME TypeOK, NEW t \in Tasks, NEW place \in Places, Go(t, place)
    PROVE  /\ task' \in [Tasks -> [kind : Kinds, at : Places]]
           /\ At(t)' = place
           /\ Kind(t)' = (IF place = "free" THEN "none" ELSE Kind(t))
           /\ \A u \in Tasks : u # t => At(u)' = At(u) /\ Kind(u)' = Kind(u)
<1>1. task[t] \in [kind : Kinds, at : Places]
  BY DEF TypeOK
<1>2. Idle \in [kind : Kinds, at : Places]
  BY DEF Idle, Kinds, Places
<1>3. [task[t] EXCEPT !.at = place] \in [kind : Kinds, at : Places]
  BY <1>1
<1>4. task' \in [Tasks -> [kind : Kinds, at : Places]]
  BY <1>2, <1>3 DEF Go, TypeOK
<1>5. task'[t] = IF place = "free" THEN Idle ELSE [task[t] EXCEPT !.at = place]
  BY DEF Go, TypeOK
<1>6. \A u \in Tasks : u # t => task'[u] = task[u]
  BY DEF Go, TypeOK
<1> QED BY <1>1, <1>4, <1>5, <1>6 DEF At, Kind, Idle

\* A handler or a login that becomes a task.
LEMMA TaskSpawns ==
    ASSUME TypeOK, NEW t \in Tasks, NEW k \in Kinds, NEW place \in Places, Spawn(t, k, place)
    PROVE  /\ task' \in [Tasks -> [kind : Kinds, at : Places]]
           /\ At(t) = "free" /\ At(t)' = place /\ Kind(t)' = k
           /\ \A u \in Tasks : u # t => At(u)' = At(u) /\ Kind(u)' = Kind(u)
<1>1. task' \in [Tasks -> [kind : Kinds, at : Places]]
  BY DEF Spawn, TypeOK
<1>2. task'[t] = [kind |-> k, at |-> place] /\ \A u \in Tasks : u # t => task'[u] = task[u]
  BY DEF Spawn, TypeOK
<1> QED BY <1>1, <1>2 DEF Spawn, Free, At, Kind

\* _abandon_attempt: what becomes of the other tasks.
LEMMA TaskAbandons ==
    ASSUME TypeOK, NEW t \in Tasks, NEW k \in Kinds, Abandon(t, k)
    PROVE  /\ task' \in [Tasks -> [kind : Kinds, at : Places]]
           /\ At(t) = "free" /\ At(t)' = "abandoned" /\ Kind(t)' = k
           /\ \A u \in Tasks : u # t =>
                IF u = attempt \/ (u = gateway /\ At(u) \in Asking)
                THEN At(u)' = "free" /\ Kind(u)' = "none"
                ELSE At(u)' = At(u) /\ Kind(u)' = Kind(u)
<1>1. Idle \in [kind : Kinds, at : Places] /\ [kind |-> k, at |-> "abandoned"] \in [kind : Kinds, at : Places]
  BY DEF Idle, Kinds, Places
<1>2. task' \in [Tasks -> [kind : Kinds, at : Places]]
  BY <1>1 DEF Abandon, TypeOK
<1>3. \A u \in Tasks : task'[u] = IF u = t THEN [kind |-> k, at |-> "abandoned"]
          ELSE IF u = attempt \/ (u = gateway /\ At(u) \in Asking) THEN Idle ELSE task[u]
  BY DEF Abandon
<1> QED BY <1>2, <1>3 DEF Abandon, Free, At, Kind, Idle

\* What every drawing leaves: typed variables, and the screen before if it had buttons.
Drawn ==
    /\ stage' \in Stages /\ step' \in Steps /\ faults' \in 0..MaxFaults
    /\ screen' \in Screens /\ before' \in Screens
    /\ before' \in {"none", screen, before}

\* The screen of a /start or a restart: never one that asks for a number.
LEMMA OfferWrites ==
    ASSUME TypeOK, Offer
    PROVE  /\ Drawn
           /\ screen' \in {"timezone", "home", "resume", "welcome"}
           /\ screen' = "timezone" => ~zone
           /\ step' \in Asking => step' = step
<1>1. {"timezone", "home", "resume", "welcome"} \subseteq Screens /\ "timezone" \in Steps
  BY DEF Screens, Steps
<1>2. step \in Steps /\ stage \in Stages /\ "max_onboarding_pending" \in Stages
  BY DEF TypeOK, Stages
<1>3. CASE ~zone
  <2>1. Draw("timezone", "timezone") /\ stage' \in Stages
    BY <1>2, <1>3 DEF Offer
  <2>2. step' \notin Asking
    BY <1>1, <2>1, DrawWrites DEF Rewound, Asking
  <2> QED BY <1>1, <1>3, <2>1, <2>2, DrawWrites DEF Drawn
<1>4. CASE zone
  <2>1. PICK s \in {"home", "resume", "welcome"} : Draw(s, step) /\ stage' = stage
    BY <1>4 DEF Offer
  <2>2. step' = step \/ step' = Rewound(step)
    BY <1>1, <1>2, <2>1, DrawWrites
  <2>3. Rewound(step) \notin Asking
    BY <1>2, RewindsToAStep DEF Ephemeral, Asking
  <2> QED BY <1>1, <1>2, <2>1, <2>2, <2>3, DrawWrites DEF Drawn
<1> QED BY <1>3, <1>4

\* The question for a number, with Telegram's own as a choice if it can be read.
LEMMA AskWrites ==
    ASSUME TypeOK, AskForANumber
    PROVE  Drawn /\ screen' \in {"choice", "phone"} /\ step' \notin Asking
<1>1. Number \in {"choice", "phone"} /\ {"choice", "phone"} \subseteq Screens \cap Steps
  BY DEF Number, Screens, Steps
<1>2. Draw(Number, Number) /\ stage' \in Stages
  BY DEF AskForANumber, Stages
<1>3. step' \notin Asking
  BY <1>1, <1>2, DrawWrites DEF Rewound, Asking
<1> QED BY <1>1, <1>2, <1>3, DrawWrites DEF Drawn

\* What a task does once the worker is there (_start_worker's callers).
LEMMA ServedWrites ==
    ASSUME TypeOK, NEW t \in Tasks, NEW st \in Steps, NEW sg \in Stages, Served(t, st, sg)
    PROVE  /\ Drawn /\ Go(t, "free") /\ Finished(t)
           /\ screen' \in {"home", "timezone", "choice", "phone"}
           /\ screen' \in {"choice", "phone"} => Kind(t) = "zone"
           /\ screen' = "timezone" => Kind(t) = "boot" /\ ~zone
           /\ step' \in Asking => step' = st
<1>1. {"home", "timezone"} \subseteq Screens /\ {"completed", "timezone"} \subseteq Steps
  BY DEF Screens, Steps
<1>2. /\ Rewound("completed") \notin Asking /\ Rewound("timezone") \notin Asking
      /\ Rewound(st) \notin Asking /\ "completed" \notin Asking /\ "timezone" \notin Asking
  BY DEF Rewound, Ephemeral, Asking
<1>3. \/ stage' = "bridge_running" /\ Draw("home", "completed")
      \/ Kind(t) = "zone" /\ AskForANumber
      \/ Kind(t) = "boot" /\ ~zone /\ stage' = sg /\ Draw("timezone", "timezone")
      \/ stage' = sg /\ Draw("home", st)
  BY Zenon DEF Served
<1>4. CASE Kind(t) = "zone" /\ AskForANumber
  BY <1>4, AskWrites DEF Served
<1>5. CASE stage' = "bridge_running" /\ Draw("home", "completed")
  BY <1>1, <1>2, <1>5, DrawWrites DEF Served, Drawn, Stages
<1>6. CASE Kind(t) = "boot" /\ ~zone /\ stage' = sg /\ Draw("timezone", "timezone")
  BY <1>1, <1>2, <1>6, DrawWrites DEF Served, Drawn
<1>7. CASE stage' = sg /\ Draw("home", st)
  BY <1>1, <1>2, <1>7, DrawWrites DEF Served, Drawn
<1> QED BY <1>3, <1>4, <1>5, <1>6, <1>7

\* A task that ends forgets the attempt it was (MaxOnboarding._attempt).
LEMMA Forgets ==
    ASSUME TypeOK, NEW t \in Tasks
    PROVE  /\ Finished(t) => /\ attempt' \in Tasks \union {0}
                             /\ attempt' # 0 => attempt' = attempt /\ attempt # t
           /\ \A place \in Places : Ends(t, place) =>
                 /\ Go(t, place) /\ gateway' = 0
                 /\ attempt' \in Tasks \union {0}
                 /\ attempt' # 0 => attempt' = attempt /\ (place = "free" => attempt # t)
  BY DEF TypeOK, Finished, Ends

\* The initial state: a new installation, or one that served before.
LEMMA InitTyped == Init => TypeOK
<1> SUFFICES ASSUME Init PROVE TypeOK
  OBVIOUS
<1>1. stage \in Stages /\ step \in Steps /\ {screen, before} \subseteq Screens
  BY DEF Init, Stages, Steps, Screens
<1>2. task \in [Tasks -> [kind : Kinds, at : Places]]
  BY DEF Init, Idle, Kinds, Places
<1>3. faults \in 0..MaxFaults /\ slips \in 0..MaxSlips
  BY OnboardingAssumption DEF Init
<1>4. {zone, phone, session, known, service, up, torn, crossed} \subseteq BOOLEAN
  BY DEF Init
<1> QED BY <1>1, <1>2, <1>3, <1>4 DEF Init, TypeOK

\* A step that keeps the file, the screen and the tasks typed, and the rest as it is.
LEMMA TypedFromParts ==
    ASSUME TypeOK, Drawn, task' \in [Tasks -> [kind : Kinds, at : Places]],
           {zone', phone', session', service', up', torn', crossed'} \subseteq BOOLEAN,
           known' = known,
           {gateway', attempt', lock'} \subseteq Tasks \union {0},
           {workers', revision', question'} \subseteq Nat,
           slips' \in 0..MaxSlips
    PROVE  TypeOK'
  BY DEF TypeOK, Drawn

\* What is not drawn is as it was.
LEMMA Undrawn ==
    ASSUME TypeOK, UNCHANGED <<stage, step, shown>>, faults' \in 0..MaxFaults
    PROVE  Drawn
  BY DEF TypeOK, Drawn, shown

\* What the start of the process draws: nothing while it has a bridge to start, or a
\* screen that fits the file (_resume).
LEMMA BootWrites ==
    ASSUME TypeOK, Boot
    PROVE  /\ Drawn /\ step' \notin Asking
           /\ CanServe => screen' = screen
           /\ ~CanServe => /\ screen' \in {"none", "timezone", "home", "resume", "welcome"}
                           /\ screen' = "timezone" => ~zone
<1>1. /\ Rewound(step) \in Steps /\ Rewound(step) \notin Asking
      /\ Rewound(Rewound(step)) = Rewound(step)
  BY DEF TypeOK, Rewound, Steps, Ephemeral, Asking
<1>2. /\ {"timezone", "home", "resume", "welcome"} \subseteq Screens
      /\ "timezone" \in Steps \ Asking /\ Rewound("timezone") = "timezone"
  BY DEF Screens, Steps, Rewound, Ephemeral, Asking
<1>3. /\ stage \in Stages /\ {"bot_running", "max_onboarding_pending"} \subseteq Stages
      /\ {screen, before} \subseteq Screens /\ faults \in 0..MaxFaults
  BY DEF TypeOK, Stages
<1>4. CASE CanServe
  <2>1. UNCHANGED <<stage, screen, before, faults>> /\ step' = Rewound(step)
    BY <1>4 DEF Boot, NoFault, shown
  <2> QED BY <1>1, <1>3, <1>4, <2>1 DEF Drawn
<1>5. CASE ~CanServe /\ screen = "none"
  <2>1. UNCHANGED <<screen, before, faults>> /\ step' = Rewound(step) /\ stage' \in Stages
    BY <1>3, <1>5 DEF Boot, NoFault, shown
  <2> QED BY <1>1, <1>3, <1>5, <2>1 DEF Drawn
<1>6. CASE ~CanServe /\ screen # "none" /\ ~zone
  <2>1. Draw("timezone", "timezone") /\ stage' \in Stages
    BY <1>3, <1>6 DEF Boot
  <2> QED BY <1>2, <1>6, <2>1, DrawWrites DEF Drawn
<1>7. CASE ~CanServe /\ screen # "none" /\ zone
  <2>1. PICK sc \in {"home", "resume", "welcome"} : Draw(sc, Rewound(step)) /\ stage' = stage
    BY <1>7 DEF Boot
  <2> QED BY <1>1, <1>2, <1>3, <1>7, <2>1, DrawWrites DEF Drawn
<1> QED BY <1>4, <1>5, <1>6, <1>7

\* The types of the process's steps and of /start.
LEMMA ProcessTyped == TypeOK /\ (Boot \/ Crash \/ StartCommand) => TypeOK'
<1> SUFFICES ASSUME TypeOK, Boot \/ Crash \/ StartCommand PROVE TypeOK'
  OBVIOUS
<1> USE DEF config, worker, login, restart
<1>0. /\ {zone, phone, session, service, up, torn, crossed} \subseteq BOOLEAN
      /\ {gateway, attempt, lock} \subseteq Tasks \union {0}
      /\ {workers, revision, question} \subseteq Nat
      /\ task \in [Tasks -> [kind : Kinds, at : Places]] /\ step \in Steps /\ stage \in Stages
      /\ slips \in 0..MaxSlips
  BY DEF TypeOK
<1>1. ASSUME Boot PROVE TypeOK'
  <2>1. task' \in [Tasks -> [kind : Kinds, at : Places]]
    <3>1. "boot" \in Kinds /\ "waiting" \in Places
      BY DEF Kinds, Places
    <3> QED BY <1>0, <1>1, <3>1, Listed, TaskSpawns DEF Boot
  <2>2. Drawn
    BY <1>1, BootWrites
  <2> QED BY <1>0, <1>1, <2>1, <2>2, TypedFromParts DEF Boot
<1>2. ASSUME Crash PROVE TypeOK'
  <2>1. Drawn
    BY <1>2, Counted, Undrawn DEF Crash
  <2>2. task' \in [Tasks -> [kind : Kinds, at : Places]]
    BY <1>2 DEF Crash, Idle, Kinds, Places
  <2>3. {zone', phone', session', service', up', torn', crossed'} \subseteq BOOLEAN
    BY <1>0, <1>2 DEF Crash
  <2>4. /\ {gateway', attempt', lock'} \subseteq Tasks \union {0}
        /\ {workers', revision', question'} \subseteq Nat
        /\ known' = known /\ slips' \in 0..MaxSlips
    BY <1>0, <1>2 DEF Crash
  <2> QED BY <2>1, <2>2, <2>3, <2>4, TypedFromParts
<1>3. ASSUME StartCommand PROVE TypeOK'
  <2>1. slips' \in 0..MaxSlips
    BY <1>3, Counted DEF StartCommand
  <2>2. Drawn
    BY <1>3, OfferWrites DEF StartCommand
  <2> QED BY <1>0, <1>3, <2>1, <2>2, TypedFromParts DEF StartCommand
<1> QED BY <1>1, <1>2, <1>3

\* The types of the steps before a number is given.
LEMMA QuestionsTyped ==
    ASSUME TypeOK, NEW t \in Tasks,
           \/ Begin(t) \/ AfterBegin(t) \/ Cancel(t) \/ AfterCancel(t) \/ SetTimezone(t)
           \/ TimezoneFails \/ AskOtherPhone
    PROVE  TypeOK'
<1> USE DEF config, worker, login, restart
<1>0. /\ {zone, phone, session, service, up, torn, crossed} \subseteq BOOLEAN
      /\ {gateway, attempt, lock} \subseteq Tasks \union {0}
      /\ {workers, revision, question} \subseteq Nat
      /\ task \in [Tasks -> [kind : Kinds, at : Places]] /\ step \in Steps /\ stage \in Stages
      /\ slips \in 0..MaxSlips /\ faults \in 0..MaxFaults
      /\ {"free", "stop", "abandoned"} \subseteq Places
      /\ {"begin", "cancel", "zone"} \subseteq Kinds
      /\ {"cancelled", "home", "launch_failed", "phone"} \subseteq Screens
      /\ {"idle", "phone"} \subseteq Steps
  BY DEF TypeOK, Places, Kinds, Screens, Steps
<1>1. ASSUME NEW k \in Kinds, Abandon(t, k)
      PROVE  /\ task' \in [Tasks -> [kind : Kinds, at : Places]] /\ torn' \in BOOLEAN
             /\ {gateway', attempt', lock'} \subseteq Tasks \union {0}
             /\ service' \in BOOLEAN /\ workers' \in Nat
  BY <1>0, <1>1, TaskAbandons DEF Abandon
<1>2. ASSUME Begin(t) PROVE TypeOK'
  <2>1. Drawn
    BY <1>0, <1>2, Undrawn DEF Begin
  <2> QED BY <1>0, <1>1, <1>2, <2>1, TapCounts, TypedFromParts DEF Begin
<1>3. ASSUME Cancel(t) PROVE TypeOK'
  <2>1. Drawn
    BY <1>0, <1>3, Undrawn DEF Cancel
  <2>2. slips' \in 0..MaxSlips /\ crossed' \in BOOLEAN
    BY <1>0, <1>3, Counted DEF Cancel
  <2> QED BY <1>0, <1>1, <1>3, <2>1, <2>2, TypedFromParts DEF Cancel
<1>4. ASSUME AfterBegin(t) PROVE TypeOK'
  <2>1. Drawn
    BY <1>4, OfferWrites, AskWrites DEF AfterBegin
  <2> QED BY <1>0, <1>4, <2>1, TaskGoes, TypedFromParts DEF AfterBegin
<1>5. ASSUME AfterCancel(t) PROVE TypeOK'
  <2>1. Drawn
    BY <1>0, <1>5, DrawWrites DEF AfterCancel, Drawn
  <2> QED BY <1>0, <1>5, <2>1, TaskGoes, TypedFromParts DEF AfterCancel
<1>6. ASSUME SetTimezone(t) PROVE TypeOK'
  <2>1. Drawn
    <3>1. CASE service
      BY <1>0, <1>6, <3>1, Undrawn DEF SetTimezone
    <3>2. CASE ~service
      BY <1>0, <1>6, <3>2, DrawWrites, AskWrites DEF SetTimezone, AfterZone, Drawn
    <3> QED BY <3>1, <3>2
  <2>2. task' \in [Tasks -> [kind : Kinds, at : Places]]
    BY <1>0, <1>6, TaskSpawns DEF SetTimezone
  <2> QED BY <1>0, <1>6, <2>1, <2>2, TapCounts, TypedFromParts DEF SetTimezone
<1>7. ASSUME TimezoneFails PROVE TypeOK'
  <2>1. Drawn
    BY <1>0, <1>7, Counted, RedrawWrites DEF TimezoneFails, Drawn
  <2> QED BY <1>0, <1>7, <2>1, TapCounts, TypedFromParts DEF TimezoneFails
<1>8. ASSUME AskOtherPhone PROVE TypeOK'
  <2>1. Drawn
    BY <1>0, <1>8, DrawWrites DEF AskOtherPhone, Drawn
  <2> QED BY <1>0, <1>8, <2>1, TapCounts, TypedFromParts DEF AskOtherPhone
<1> QED BY <1>2, <1>3, <1>4, <1>5, <1>6, <1>7, <1>8

\* The types of a login's steps.
LEMMA LoginTyped ==
    ASSUME TypeOK, NEW t \in Tasks,
           \/ UseTelegramPhone(t) \/ CreateAttempt(t) \/ AskCode(t) \/ AskPassword(t)
           \/ AskAgain(t) \/ AnswerPhone(t) \/ AnswerMistaken \/ Answer \/ GiveUp(t)
           \/ LoginFails(t) \/ LoginSucceeds(t) \/ Persist(t) \/ PersistFails(t)
    PROVE  TypeOK'
<1> USE DEF config, worker, login, restart
<1>0. /\ {zone, phone, session, service, up, torn, crossed} \subseteq BOOLEAN
      /\ {gateway, attempt, lock} \subseteq Tasks \union {0}
      /\ {workers, revision, question} \subseteq Nat
      /\ task \in [Tasks -> [kind : Kinds, at : Places]] /\ step \in Steps /\ stage \in Stages
      /\ slips \in 0..MaxSlips /\ faults \in 0..MaxFaults
      /\ {"free", "sending", "connect", "saving", "waiting", "code", "password",
          "check_code", "check_password"} \subseteq Places
      /\ "login" \in Kinds /\ "max_session_valid" \in Stages
      /\ {"code", "password", "phone", "validating", "saving", "starting_bridge"} \subseteq Steps
      /\ {"code", "password", "code_again", "phone", "validating", "sending", "saving", "starting",
          "login_failed", "launch_failed"} \subseteq Screens
  BY DEF TypeOK, Places, Connecting, Asking, Checking, Kinds, Screens, Busy, Steps, Ephemeral, Stages
<1>1. ASSUME NEW st \in Steps, StartLogin(t, st)
      PROVE  /\ Drawn /\ task' \in [Tasks -> [kind : Kinds, at : Places]]
             /\ {gateway', attempt'} \subseteq Tasks \union {0}
  <2>1. Spawn(t, "login", "sending") /\ Draw("sending", st)
    BY <1>1 DEF StartLogin
  <2>2. task' \in [Tasks -> [kind : Kinds, at : Places]]
    BY <1>0, <2>1, TaskSpawns
  <2> QED BY <1>0, <1>1, <2>1, <2>2, DrawWrites DEF StartLogin, Drawn
<1>2. CASE UseTelegramPhone(t)
  <2>1. Rewound(step) \in Steps
    BY <1>0, RewindsToAStep
  <2> QED BY <1>0, <1>1, <1>2, <2>1, TapCounts, TypedFromParts DEF UseTelegramPhone
<1>3. CASE AnswerPhone(t)
  <2>1. crossed' \in BOOLEAN
    BY <1>0, <1>3 DEF AnswerPhone
  <2> QED BY <1>0, <1>1, <1>3, <2>1, TypedFromParts DEF AnswerPhone
<1>4. CASE CreateAttempt(t)
  <2>1. Drawn
    BY <1>0, <1>4, Undrawn DEF CreateAttempt
  <2> QED BY <1>0, <1>4, <2>1, TaskGoes, TypedFromParts DEF CreateAttempt
<1>5. CASE AskCode(t) \/ AskPassword(t)
  <2>1. PICK q \in {"code", "password"} : Prompt(t, q, q)
    BY <1>5 DEF AskCode, AskPassword
  <2>2. Drawn
    BY <1>0, <2>1, DrawWrites DEF Prompt, Drawn
  <2>3. task' \in [Tasks -> [kind : Kinds, at : Places]]
    BY <1>0, <2>1, TaskGoes DEF Prompt
  <2> QED BY <1>0, <2>1, <2>2, <2>3, TypedFromParts DEF Prompt
<1>6. CASE AskAgain(t)
  <2>1. PICK q \in {"code", "password"}, sc \in {"code_again", "password"} :
          Go(t, q) /\ step' = q /\ Redraw(sc)
    BY <1>6 DEF AskAgain
  <2>2. Drawn
    BY <1>0, <1>6, <2>1, RedrawWrites, Counted DEF AskAgain, Drawn
  <2>3. task' \in [Tasks -> [kind : Kinds, at : Places]]
    BY <1>0, <2>1, TaskGoes
  <2> QED BY <1>0, <1>6, <2>2, <2>3, TypedFromParts DEF AskAgain
<1>7. CASE AnswerMistaken
  <2>1. Drawn
    BY <1>0, <1>7, DrawWrites DEF AnswerMistaken, Drawn
  <2> QED BY <1>0, <1>7, <2>1, TypedFromParts DEF AnswerMistaken
<1>8. CASE Answer
  <2>1. Drawn
    BY <1>0, <1>8, DrawWrites DEF Answer, Drawn
  <2>2. task' \in [Tasks -> [kind : Kinds, at : Places]]
    BY <1>0, <1>8, TaskGoes DEF Answer
  <2> QED BY <1>0, <1>8, <2>1, <2>2, TypedFromParts DEF Answer
<1>9. CASE GiveUp(t)
  <2>1. Drawn
    BY <1>9, Counted, Undrawn DEF GiveUp
  <2>2. Go(t, "free") /\ gateway' = 0 /\ attempt' \in Tasks \union {0}
    BY <1>0, <1>9, Forgets DEF GiveUp
  <2> QED BY <1>0, <1>9, <2>1, <2>2, TaskGoes, TypedFromParts DEF GiveUp
<1>10. CASE LoginFails(t)
  <2>1. Drawn
    BY <1>0, <1>10, RedrawWrites, Counted DEF LoginFails, Drawn
  <2>2. Go(t, "free") /\ gateway' = 0 /\ attempt' \in Tasks \union {0}
    BY <1>0, <1>10, Forgets DEF LoginFails
  <2> QED BY <1>0, <1>10, <2>1, <2>2, TaskGoes, TypedFromParts DEF LoginFails
<1>11. CASE LoginSucceeds(t)
  <2>1. Drawn
    BY <1>0, <1>11, DrawWrites DEF LoginSucceeds, Drawn
  <2>2. Go(t, "saving") /\ gateway' = 0 /\ attempt' \in Tasks \union {0}
    BY <1>0, <1>11, Forgets DEF LoginSucceeds
  <2> QED BY <1>0, <1>11, <2>1, <2>2, TaskGoes, TypedFromParts DEF LoginSucceeds
<1>12. CASE Persist(t)
  <2>1. Drawn
    BY <1>0, <1>12, DrawWrites DEF Persist, Drawn
  <2> QED BY <1>0, <1>12, <2>1, TaskGoes, TypedFromParts DEF Persist
<1>13. CASE PersistFails(t)
  <2>1. Drawn
    BY <1>0, <1>13, RedrawWrites, Counted DEF PersistFails, Drawn
  <2>2. phone' \in BOOLEAN
    BY <1>0, <1>13 DEF PersistFails
  <2> QED BY <1>0, <1>13, <2>1, <2>2, TaskGoes, Forgets, TypedFromParts DEF PersistFails
<1> QED BY <1>2, <1>3, <1>4, <1>5, <1>6, <1>7, <1>8, <1>9, <1>10, <1>11, <1>12, <1>13

\* The types of the worker's steps; what is counted down was there.
LEMMA WorkerTyped ==
    ASSUME TypeOK, WorkerInv, NEW t \in Tasks,
           \/ RetryLaunch(t) \/ TakeLock(t) \/ Started(t) \/ StartFails(t) \/ OfferRestart
           \/ ConfirmRestart(t) \/ DeclineRestart \/ StopWorker(t) \/ Stopped(t)
    PROVE  TypeOK'
<1> USE DEF config, worker, login, restart
<1>0. /\ {zone, phone, session, service, up, torn, crossed} \subseteq BOOLEAN
      /\ {gateway, attempt, lock} \subseteq Tasks \union {0}
      /\ {workers, revision, question} \subseteq Nat
      /\ task \in [Tasks -> [kind : Kinds, at : Places]] /\ step \in Steps /\ stage \in Stages
      /\ slips \in 0..MaxSlips /\ faults \in 0..MaxFaults
      /\ {"free", "waiting", "starting", "stop", "stopping"} \subseteq Places
      /\ {"launch", "restart"} \subseteq Kinds
      /\ {"bridge_running", "max_onboarding_pending"} \subseteq Stages
      /\ Rewound(step) \in Steps /\ {"starting_bridge"} \subseteq Steps
      /\ {"starting", "home", "launch_failed", "confirm", "restarting"} \subseteq Screens
  BY RewindsToAStep DEF TypeOK, Places, Kinds, Screens, Busy, Steps, Stages
<1>1. At(t) \in Holding => workers - 1 \in Nat
  <2>1. At(t) \in Holding => lock # 0
    BY Listed DEF WorkerInv
  <2> QED BY <1>0, <2>1 DEF WorkerInv
<1>2. CASE RetryLaunch(t)
  <2>1. Drawn
    BY <1>0, <1>2, DrawWrites DEF RetryLaunch, Drawn
  <2> QED BY <1>0, <1>2, <2>1, TapCounts, TaskSpawns, TypedFromParts DEF RetryLaunch
<1>3. CASE TakeLock(t)
  <2>1. CASE service
    <3>1. Served(t, step, stage)
      BY <1>3, <2>1 DEF TakeLock
    <3>2. /\ Drawn /\ attempt' \in Tasks \union {0}
          /\ task' \in [Tasks -> [kind : Kinds, at : Places]]
      BY <1>0, <3>1, ServedWrites, Forgets, TaskGoes
    <3> QED BY <1>0, <1>3, <2>1, <3>2, TypedFromParts DEF TakeLock
  <2>2. CASE ~service
    <3>1. Drawn
      BY <1>0, <1>3, <2>2, Undrawn DEF TakeLock
    <3>2. task' \in [Tasks -> [kind : Kinds, at : Places]] /\ workers' \in Nat
      BY <1>0, <1>3, <2>2, TaskGoes DEF TakeLock
    <3> QED BY <1>0, <1>3, <2>2, <3>1, <3>2, TypedFromParts DEF TakeLock
  <2> QED BY <2>1, <2>2
<1>4. CASE Started(t)
  <2>1. Served(t, Rewound(step), "bridge_running")
    BY <1>4 DEF Started
  <2>2. /\ Drawn /\ attempt' \in Tasks \union {0}
        /\ task' \in [Tasks -> [kind : Kinds, at : Places]]
    BY <1>0, <2>1, ServedWrites, Forgets, TaskGoes
  <2> QED BY <1>0, <1>4, <2>2, TypedFromParts DEF Started
<1>5. CASE StartFails(t)
  <2>1. PICK sc \in {"home", "launch_failed", Number} :
          /\ Redraw(sc) /\ step' \in {step, Number} /\ stage' \in {stage, "max_onboarding_pending"}
    BY <1>5 DEF StartFails
  <2>2. Drawn
    BY <1>0, <1>5, <2>1, Listed, RedrawWrites, Counted DEF StartFails, Drawn
  <2>3. attempt' \in Tasks \union {0} /\ task' \in [Tasks -> [kind : Kinds, at : Places]]
    BY <1>0, <1>5, Forgets, TaskGoes DEF StartFails
  <2>4. workers' \in Nat
    BY <1>1, <1>5 DEF StartFails, Holding
  <2> QED BY <1>0, <1>5, <2>2, <2>3, <2>4, TypedFromParts DEF StartFails
<1>6. CASE OfferRestart
  <2>1. Drawn
    BY <1>0, <1>6, DrawWrites DEF OfferRestart, Drawn
  <2>2. slips' \in 0..MaxSlips
    BY <1>6, Counted DEF OfferRestart
  <2> QED BY <1>0, <1>6, <2>1, <2>2, TypedFromParts DEF OfferRestart
<1>7. CASE ConfirmRestart(t)
  <2>1. Drawn
    BY <1>0, <1>7, DrawWrites DEF ConfirmRestart, Drawn
  <2>2. task' \in [Tasks -> [kind : Kinds, at : Places]] /\ revision' \in Nat
    BY <1>0, <1>7, TaskSpawns DEF ConfirmRestart
  <2> QED BY <1>0, <1>7, <2>1, <2>2, TapCounts, TypedFromParts DEF ConfirmRestart
<1>8. CASE DeclineRestart
  <2>1. Drawn
    BY <1>0, <1>8, DrawWrites DEF DeclineRestart, Drawn
  <2>2. slips' \in 0..MaxSlips
    BY <1>8, Counted DEF DeclineRestart
  <2> QED BY <1>0, <1>8, <2>1, <2>2, TypedFromParts DEF DeclineRestart
<1>9. CASE StopWorker(t)
  <2>1. Drawn
    BY <1>0, <1>9, Undrawn DEF StopWorker
  <2>2. task' \in [Tasks -> [kind : Kinds, at : Places]]
    BY <1>0, <1>9, TaskGoes DEF StopWorker
  <2> QED BY <1>0, <1>9, <2>1, <2>2, TypedFromParts DEF StopWorker
<1>10. CASE Stopped(t)
  <2>1. Drawn
    BY <1>0, <1>10, Undrawn DEF Stopped
  <2>2. task' \in [Tasks -> [kind : Kinds, at : Places]]
    BY <1>0, <1>10, TaskGoes DEF Stopped
  <2>3. workers' \in Nat
    BY <1>1, <1>10 DEF Stopped, Holding
  <2> QED BY <1>0, <1>10, <2>1, <2>2, <2>3, TypedFromParts DEF Stopped
<1> QED BY <1>2, <1>3, <1>4, <1>5, <1>6, <1>7, <1>8, <1>9, <1>10

\* Every step keeps the types, given that workers are only counted down by who holds one.
LEMMA StepTyped == TypeOK /\ WorkerInv /\ [Next]_vars => TypeOK'
<1>1. TypeOK /\ UNCHANGED vars => TypeOK'
  BY DEF TypeOK, vars, config, worker, login, shown, restart
<1>2. 1 \in Tasks
  BY Listed
<1> QED BY <1>1, <1>2, ProcessTyped, QuestionsTyped, LoginTyped, WorkerTyped
    DEF Next, Types, Taps, Resumes, Misfires

-----------------------------------------------------------------------------
(* One worker *)

\* What a task's place says of its kind.
Shaped(t) ==
    /\ At(t) \in {"stop", "stopping"} => Kind(t) \in {"restart", "zone"}
    /\ At(t) = "sending" => Kind(t) = "login"
    /\ At(t) = "free" => Kind(t) = "none"

\* A step in which no task moves and the worker stays as it is.
LEMMA NobodyMoves ==
    ASSUME WorkerInv, UNCHANGED <<worker, task, attempt>>
    PROVE  WorkerInv'
  BY DEF WorkerInv, worker, At, Kind, OneWorker

\* A step in which one task moves, between places at which it holds no lock.
LEMMA OneMoves ==
    ASSUME WorkerInv, NEW t \in Tasks, UNCHANGED worker,
           \A u \in Tasks : u # t => At(u)' = At(u) /\ Kind(u)' = Kind(u),
           At(t) \notin Holding, At(t)' \notin Holding, Shaped(t)',
           attempt' # 0 => IF attempt' = t THEN Kind(t)' = "login"
                           ELSE attempt' = attempt /\ attempt \in Tasks
    PROVE  WorkerInv'
<1>1. UNCHANGED <<lock, service, workers, torn>>
  BY DEF worker
<1>2. \A u \in Tasks : At(u)' \in Holding <=> lock = u
  BY DEF WorkerInv
<1>3. \A u \in Tasks : Shaped(u)'
  BY DEF WorkerInv, Shaped
<1>4. attempt' # 0 => Kind(attempt)' = "login"
  BY DEF WorkerInv, Kind
<1>5. OneWorker'
  BY <1>1 DEF WorkerInv, OneWorker
<1> QED BY <1>1, <1>2, <1>3, <1>4, <1>5 DEF WorkerInv, Shaped

\* A handler is spawned where no worker is touched.
LEMMA SpawnKeeps ==
    ASSUME TypeOK, WorkerInv, NEW t \in Tasks, NEW k \in Kinds, NEW place \in Places,
           Spawn(t, k, place), UNCHANGED <<worker, attempt>>,
           place \notin Holding \union {"free", "stopping"},
           place = "stop" => k \in {"restart", "zone"},
           place = "sending" => k = "login"
    PROVE  WorkerInv'
<1>1. /\ At(t) = "free" /\ At(t)' = place /\ Kind(t)' = k
      /\ \A u \in Tasks : u # t => At(u)' = At(u) /\ Kind(u)' = Kind(u)
  BY TaskSpawns
<1>2. attempt \in Tasks \union {0} /\ attempt # t
  BY <1>1, Listed DEF TypeOK, WorkerInv
<1> QED BY <1>1, <1>2, OneMoves DEF Shaped, Holding

\* A task goes on without the worker, and the attempt is still a login if it is one.
LEMMA GoKeeps ==
    ASSUME TypeOK, WorkerInv, NEW t \in Tasks, NEW place \in Places,
           Go(t, place), UNCHANGED worker,
           At(t) \notin Holding, place \notin Holding \union {"stop", "sending"},
           \/ attempt' = attempt /\ place # "free"
           \/ attempt' # 0 => attempt' = attempt /\ attempt # t
           \/ attempt' = t /\ Kind(t) = "login" /\ place # "free"
    PROVE  WorkerInv'
<1>1. /\ At(t)' = place
      /\ Kind(t)' = IF place = "free" THEN "none" ELSE Kind(t)
      /\ \A u \in Tasks : u # t => At(u)' = At(u) /\ Kind(u)' = Kind(u)
  BY TaskGoes
<1>2. attempt \in Tasks \union {0} /\ (attempt # 0 => Kind(attempt) = "login")
  BY DEF TypeOK, WorkerInv
<1>3. Shaped(t)'
  BY <1>1 DEF Shaped, Holding
<1>4. attempt' # 0 => IF attempt' = t THEN Kind(t)' = "login"
                      ELSE attempt' = attempt /\ attempt \in Tasks
  BY <1>1, <1>2
<1> QED BY <1>1, <1>3, <1>4, OneMoves

\* _abandon_attempt lets the lock go with the launch it tears down.
LEMMA AbandonKeeps ==
    ASSUME TypeOK, WorkerInv, NEW t \in Tasks, NEW k \in Kinds, Abandon(t, k)
    PROVE  WorkerInv'
<1>1. /\ At(t) = "free" /\ At(t)' = "abandoned" /\ Kind(t)' = k
      /\ \A u \in Tasks : u # t =>
           IF u = attempt \/ (u = gateway /\ At(u) \in Asking)
           THEN At(u)' = "free" /\ Kind(u)' = "none"
           ELSE At(u)' = At(u) /\ Kind(u)' = Kind(u)
  BY TaskAbandons
<1>2. attempt' = 0 /\ UNCHANGED <<service, workers>> /\ workers \in Nat
  BY DEF Abandon, TypeOK
<1>3. \A u \in Tasks : Shaped(u)'
  BY <1>1 DEF Shaped, WorkerInv
<1>4. \A u \in Tasks : At(u) \in Asking => At(u) \notin Holding
  BY DEF Asking, Holding
<1>5. attempt # 0 => At(attempt) # "stopping"
  BY DEF WorkerInv, TypeOK
<1>6. CASE attempt # 0 /\ At(attempt) = "starting"
  <2>1. attempt \in Tasks /\ lock = attempt /\ lock' = 0 /\ torn'
    BY <1>6 DEF Abandon, WorkerInv, TypeOK, Holding
  <2>2. \A u \in Tasks : At(u)' \notin Holding
    BY <1>1, <2>1 DEF WorkerInv, Holding
  <2>3. 0 \notin Tasks
    BY Listed
  <2> QED BY <1>2, <1>3, <2>1, <2>2, <2>3 DEF WorkerInv, Shaped, OneWorker
<1>7. CASE ~(attempt # 0 /\ At(attempt) = "starting")
  <2>1. UNCHANGED <<lock, torn>>
    BY <1>7 DEF Abandon
  <2>2. attempt \in Tasks => At(attempt) \notin Holding
    BY <1>5, <1>7, Listed DEF Holding
  <2>3. \A u \in Tasks : At(u)' \in Holding <=> At(u) \in Holding
    BY <1>1, <1>4, <2>2 DEF Holding
  <2> QED BY <1>2, <1>3, <2>1, <2>3 DEF WorkerInv, Shaped, OneWorker
<1> QED BY <1>6, <1>7

\* The names of the places and of the kinds.
LEMMA Named ==
    /\ {"free", "sending", "connect", "code", "password", "check_code", "check_password",
        "saving", "waiting", "stop", "stopping", "starting", "abandoned"} \subseteq Places
    /\ {"none", "login", "begin", "cancel", "launch", "restart", "zone", "boot"} \subseteq Kinds
    /\ Asking = {"code", "password"} /\ Checking = {"check_code", "check_password"}
    /\ Connecting = {"connect", "code", "password", "check_code", "check_password"}
  BY DEF Places, Connecting, Asking, Checking, Kinds

\* The steps that touch no worker.
LEMMA ElsewhereKeeps ==
    ASSUME TypeOK, WorkerInv, NEW t \in Tasks,
           \/ Boot \/ StartCommand \/ Begin(t) \/ AfterBegin(t) \/ Cancel(t) \/ AfterCancel(t)
           \/ SetTimezone(t) \/ TimezoneFails \/ AskOtherPhone \/ UseTelegramPhone(t)
           \/ CreateAttempt(t) \/ AskCode(t) \/ AskPassword(t) \/ AskAgain(t) \/ AnswerPhone(t)
           \/ AnswerMistaken \/ Answer \/ GiveUp(t) \/ LoginFails(t) \/ LoginSucceeds(t)
           \/ Persist(t) \/ PersistFails(t) \/ RetryLaunch(t) \/ OfferRestart
           \/ ConfirmRestart(t) \/ DeclineRestart
    PROVE  WorkerInv'
<1> USE DEF login
<1>0. "starting" \in Holding /\ "stopping" \in Holding /\ Holding \subseteq {"starting", "stopping"}
  BY DEF Holding
<1>1. CASE Boot
  <2>1. Spawn(1, "boot", "waiting") \/ UNCHANGED task
    BY <1>1 DEF Boot
  <2> QED BY <1>0, <1>1, <2>1, Named, Listed, SpawnKeeps, NobodyMoves DEF Boot
<1>2. CASE StartCommand \/ TimezoneFails \/ AskOtherPhone \/ AnswerMistaken \/ OfferRestart
           \/ DeclineRestart
  BY <1>2, NobodyMoves DEF StartCommand, TimezoneFails, AskOtherPhone, AnswerMistaken,
     OfferRestart, DeclineRestart
<1>3. CASE Begin(t) \/ Cancel(t)
  BY <1>3, Named, AbandonKeeps DEF Begin, Cancel
<1>4. CASE AfterBegin(t) \/ AfterCancel(t)
  <2>1. attempt # 0 => attempt # t
    BY <1>4 DEF AfterBegin, AfterCancel, WorkerInv
  <2> QED BY <1>0, <1>4, <2>1, Named, GoKeeps DEF AfterBegin, AfterCancel
<1>5. CASE SetTimezone(t)
  <2>1. Spawn(t, "zone", "stop") \/ UNCHANGED task
    BY <1>5 DEF SetTimezone
  <2> QED BY <1>0, <1>5, <2>1, Named, SpawnKeeps, NobodyMoves DEF SetTimezone
<1>6. CASE UseTelegramPhone(t) \/ AnswerPhone(t)
  <2>1. Spawn(t, "login", "sending") /\ UNCHANGED <<worker, attempt>>
    BY <1>6 DEF UseTelegramPhone, AnswerPhone, StartLogin
  <2> QED BY <1>0, <2>1, Named, SpawnKeeps
<1>7. CASE CreateAttempt(t)
  <2>1. Go(t, "connect") /\ attempt' = t /\ Kind(t) = "login" /\ At(t) \notin Holding /\ UNCHANGED worker
    BY <1>0, <1>7 DEF CreateAttempt, WorkerInv
  <2> QED BY <1>0, <2>1, Named, GoKeeps
<1>8. CASE AskCode(t) \/ AskPassword(t) \/ AskAgain(t)
  <2>1. PICK q \in {"code", "password"} : Go(t, q) /\ UNCHANGED <<worker, attempt>>
    BY <1>8 DEF AskCode, AskPassword, AskAgain, Prompt
  <2>2. At(t) \notin Holding
    BY <1>0, <1>8, Named DEF AskCode, AskPassword, AskAgain
  <2> QED BY <1>0, <2>1, <2>2, Named, GoKeeps
<1>9. CASE Answer
  <2>1. CASE gateway = 0
    BY <1>9, <2>1, NobodyMoves DEF Answer
  <2>2. CASE gateway # 0
    <3>1. PICK q \in {"check_code", "check_password"} : Go(gateway, q) /\ UNCHANGED <<worker, attempt>>
      BY <1>9, <2>2 DEF Answer
    <3>2. gateway \in Tasks /\ At(gateway) \notin Holding
      BY <1>0, <1>9, <2>2, Named DEF Answer, TypeOK
    <3> QED BY <1>0, <3>1, <3>2, Named, GoKeeps
  <2> QED BY <2>1, <2>2
<1>10. CASE GiveUp(t) \/ LoginFails(t) \/ LoginSucceeds(t)
  <2>1. PICK place \in {"free", "saving"} : Ends(t, place) /\ UNCHANGED worker
    BY <1>10 DEF GiveUp, LoginFails, LoginSucceeds
  <2>2. At(t) \notin Holding
    BY <1>0, <1>10, Named DEF GiveUp, LoginFails, LoginSucceeds
  <2>3. /\ Go(t, place)
        /\ IF place = "free" THEN attempt' # 0 => attempt' = attempt /\ attempt # t
           ELSE attempt' = attempt
    BY <2>1 DEF Ends
  <2> QED BY <1>0, <2>1, <2>2, <2>3, Named, GoKeeps
<1>11. CASE Persist(t)
  BY <1>0, <1>11, Named, GoKeeps DEF Persist
<1>12. CASE PersistFails(t)
  <2>1. Go(t, "free") /\ (attempt' # 0 => attempt' = attempt /\ attempt # t) /\ UNCHANGED worker
    BY <1>12, Forgets DEF PersistFails
  <2> QED BY <1>0, <1>12, <2>1, Named, GoKeeps DEF PersistFails
<1>13. CASE RetryLaunch(t)
  BY <1>0, <1>13, Named, SpawnKeeps DEF RetryLaunch
<1>14. CASE ConfirmRestart(t)
  <2>1. Spawn(t, "restart", "stop") \/ UNCHANGED task
    BY <1>14 DEF ConfirmRestart
  <2> QED BY <1>0, <1>14, <2>1, Named, SpawnKeeps, NobodyMoves DEF ConfirmRestart
<1> QED BY <1>1, <1>2, <1>3, <1>4, <1>5, <1>6, <1>7, <1>8, <1>9, <1>10, <1>11, <1>12, <1>13, <1>14

\* The steps that start and stop the worker: each one's lock is its own.
LEMMA HoldingKeeps ==
    ASSUME TypeOK, WorkerInv, NEW t \in Tasks,
           TakeLock(t) \/ Started(t) \/ StartFails(t) \/ StopWorker(t) \/ Stopped(t)
    PROVE  WorkerInv'
<1> USE DEF login
<1>0. /\ Holding = {"starting", "stopping"} /\ workers \in Nat /\ 0 \notin Tasks
      /\ attempt \in Tasks \union {0}
  BY Listed DEF Holding, TypeOK
<1>1. PICK place \in {"free", "starting", "stopping", "waiting"} :
        /\ Go(t, place)
        /\ attempt' # 0 => attempt' = attempt /\ (place = "free" => attempt # t)
        /\ place = "stopping" => At(t) = "stop"
        /\ UNCHANGED worker => At(t) \notin Holding /\ place \notin Holding
  <2>1. /\ Served(t, step, stage) \/ Served(t, Rewound(step), "bridge_running")
             => Go(t, "free") /\ (attempt' # 0 => attempt' = attempt /\ attempt # t)
        /\ Finished(t) => (attempt' # 0 => attempt' = attempt /\ attempt # t)
    BY Forgets DEF Served
  <2>2. CASE TakeLock(t)
    <3>1. At(t) = "waiting"
      BY <2>2 DEF TakeLock
    <3>2. CASE service
      BY <1>0, <2>1, <2>2, <3>1, <3>2 DEF TakeLock
    <3>3. CASE ~service
      BY <1>0, <2>2, <3>1, <3>3 DEF TakeLock, worker
    <3> QED BY <3>2, <3>3
  <2>3. CASE Started(t)
    <3>1. lock' = 0 /\ lock = t
      BY <1>0, <2>3 DEF Started, WorkerInv
    <3> QED BY <1>0, <2>1, <2>3, <3>1 DEF Started, worker
  <2>4. CASE StartFails(t)
    <3>1. lock' = 0 /\ lock = t
      BY <1>0, <2>4 DEF StartFails, WorkerInv
    <3> QED BY <1>0, <2>1, <2>4, <3>1 DEF StartFails, worker
  <2>5. CASE StopWorker(t)
    BY <1>0, <2>5 DEF StopWorker, worker
  <2>6. CASE Stopped(t)
    <3>1. lock' = 0 /\ lock = t
      BY <1>0, <2>6 DEF Stopped, WorkerInv
    <3> QED BY <1>0, <2>6, <3>1 DEF Stopped, worker
  <2> QED BY <2>2, <2>3, <2>4, <2>5, <2>6
<1>2. /\ At(t)' = place
      /\ Kind(t)' = IF place = "free" THEN "none" ELSE Kind(t)
      /\ \A u \in Tasks : u # t => At(u)' = At(u) /\ Kind(u)' = Kind(u)
  BY <1>1, Named, TaskGoes
<1>3. attempt' # 0 => Kind(attempt)' = "login"
  <2> SUFFICES ASSUME attempt' # 0 PROVE Kind(attempt)' = "login"
    OBVIOUS
  <2>1. attempt' = attempt /\ attempt \in Tasks /\ Kind(attempt) = "login"
    BY <1>0, <1>1 DEF WorkerInv
  <2>2. PICK u \in Tasks : u = attempt
    BY <2>1
  <2>3. Kind(u)' = "login"
    BY <1>1, <1>2, <2>1, <2>2
  <2> QED BY <2>1, <2>2, <2>3 DEF Kind
<1>4. At(t) \in {"stop", "stopping"} => Kind(t) \in {"restart", "zone"}
  BY DEF WorkerInv
<1>5. place = "stopping" => Kind(t) \in {"restart", "zone"}
  BY <1>1, <1>4
<1>6. \A u \in Tasks : Shaped(u)'
  BY <1>2, <1>5 DEF Shaped, WorkerInv
<1>7. CASE lock = 0 /\ UNCHANGED worker
  <2>1. place \notin Holding /\ At(t) \notin Holding
    BY <1>1, <1>7
  <2> QED BY <1>0, <1>1, <1>2, <1>3, <1>6, <1>7, <2>1 DEF WorkerInv, Shaped, OneWorker, worker
<1>8. CASE TakeLock(t) /\ ~service
  <2>1. /\ lock = 0 /\ lock' = t /\ workers' = workers + 1 /\ At(t)' = "starting"
        /\ UNCHANGED <<service, torn>>
    BY <1>8, Named, TaskGoes DEF TakeLock
  <2>2. \A u \in Tasks : At(u)' \in Holding <=> lock' = u
    BY <1>0, <1>2, <2>1 DEF WorkerInv
  <2> QED BY <1>0, <1>3, <1>6, <1>8, <2>1, <2>2 DEF WorkerInv, Shaped, OneWorker
<1>9. CASE Started(t)
  <2>1. /\ lock = t /\ lock' = 0 /\ service' = TRUE /\ UNCHANGED <<workers, torn>>
        /\ At(t)' = "free"
    BY <1>0, <1>9, Named, TaskGoes DEF Started, Served, WorkerInv
  <2>2. \A u \in Tasks : At(u)' \notin Holding
    BY <1>0, <1>2, <2>1 DEF WorkerInv
  <2> QED BY <1>0, <1>3, <1>6, <2>1, <2>2 DEF WorkerInv, Shaped, OneWorker
<1>10. CASE StartFails(t) \/ Stopped(t)
  <2>1. /\ lock = t /\ lock' = 0 /\ workers' = workers - 1 /\ UNCHANGED <<service, torn>>
        /\ At(t)' \notin Holding
    BY <1>0, <1>10, Named, TaskGoes DEF StartFails, Stopped, WorkerInv
  <2>2. \A u \in Tasks : At(u)' \notin Holding
    BY <1>0, <1>2, <2>1 DEF WorkerInv
  <2>3. ~service /\ workers >= 1
    BY <1>0, <2>1 DEF WorkerInv
  <2> QED BY <1>0, <1>3, <1>6, <2>1, <2>2, <2>3 DEF WorkerInv, Shaped, OneWorker
<1>11. CASE StopWorker(t) /\ service
  <2>1. /\ lock = 0 /\ lock' = t /\ service' = FALSE /\ At(t)' = "stopping"
        /\ UNCHANGED <<workers, torn>>
    BY <1>11, Named, TaskGoes DEF StopWorker
  <2>2. \A u \in Tasks : At(u)' \in Holding <=> lock' = u
    BY <1>0, <1>2, <2>1 DEF WorkerInv
  <2> QED BY <1>0, <1>3, <1>6, <1>11, <2>1, <2>2 DEF WorkerInv, Shaped, OneWorker
<1> QED BY <1>7, <1>8, <1>9, <1>10, <1>11 DEF TakeLock, StopWorker, worker

\* Every step keeps who holds the worker.
LEMMA StepWorker == TypeOK /\ WorkerInv /\ [Next]_vars => WorkerInv'
<1> SUFFICES ASSUME TypeOK, WorkerInv, [Next]_vars PROVE WorkerInv'
  OBVIOUS
<1>1. CASE UNCHANGED vars
  BY <1>1, NobodyMoves DEF vars, login
<1>2. CASE Crash
  BY <1>2, Listed DEF Crash, WorkerInv, At, Kind, Idle, Holding, OneWorker
<1>3. 1 \in Tasks
  BY Listed
<1> QED BY <1>1, <1>2, <1>3, ElsewhereKeeps, HoldingKeeps DEF Next, Types, Taps, Resumes, Misfires

\* At first there is no worker and no task.
LEMMA InitWorker == Init => WorkerInv
  BY Listed DEF Init, WorkerInv, At, Kind, Idle, Holding, OneWorker

\* Every variable of the onboarding keeps its type: no count goes below zero.
THEOREM TypeCorrect == Spec => []TypeOK
  BY InitTyped, InitWorker, StepTyped, StepWorker, PTL DEF Spec

\* At most one BridgeService lives, installed or in the hands of the task that holds
\* the worker lock, whichever ways of starting it race (_start_worker, _stop_worker).
THEOREM OneWorkerLives == Spec => []OneWorker
<1>1. WorkerInv => OneWorker
  BY DEF WorkerInv
<1> QED BY <1>1, InitTyped, InitWorker, StepTyped, StepWorker, PTL DEF Spec

-----------------------------------------------------------------------------
(* Something to press, or somebody at work *)

\* A task that waits for an answer draws nothing until it comes; the others go on.
Working(t) == At(t) \notin {"free", "code", "password"}

WorkInv == up /\ screen \in Busy => \E t \in Tasks : Working(t)

\* The steps that draw a screen of their own.
LEMMA DrawsAQuietScreen ==
    ASSUME TypeOK, NEW t \in Tasks,
           \/ StartCommand \/ AfterBegin(t) \/ AfterCancel(t) \/ TimezoneFails \/ AskOtherPhone
           \/ AskCode(t) \/ AskPassword(t) \/ AskAgain(t) \/ AnswerMistaken \/ LoginFails(t)
           \/ PersistFails(t) \/ Started(t) \/ StartFails(t) \/ OfferRestart \/ DeclineRestart
           \/ (SetTimezone(t) /\ ~service) \/ (TakeLock(t) /\ service)
           \/ (Boot /\ ~CanServe) \/ (Answer /\ gateway = 0)
           \/ (ConfirmRestart(t) /\ question # revision)
    PROVE  screen' \notin Busy
<1>0. Busy = {"sending", "validating", "saving", "starting", "restarting"}
  BY DEF Busy
<1>1. CASE StartCommand \/ AfterBegin(t)
  <2>1. Offer \/ AskForANumber
    BY <1>1 DEF StartCommand, AfterBegin
  <2> QED BY <1>0, <2>1, OfferWrites, AskWrites
<1>2. CASE (TakeLock(t) /\ service) \/ Started(t)
  <2>1. /\ step \in Steps /\ Rewound(step) \in Steps /\ stage \in Stages /\ "bridge_running" \in Stages
    BY RewindsToAStep DEF TypeOK, Stages
  <2>2. Served(t, step, stage) \/ Served(t, Rewound(step), "bridge_running")
    BY <1>2 DEF TakeLock, Started
  <2> QED BY <1>0, <2>1, <2>2, ServedWrites
<1>3. CASE Boot /\ ~CanServe
  BY <1>0, <1>3, BootWrites
<1>4. CASE SetTimezone(t) /\ ~service
  BY <1>0, <1>4, AskWrites DEF SetTimezone, AfterZone, Draw
<1>5. CASE AskCode(t) \/ AskPassword(t) \/ AskAgain(t)
  BY <1>0, <1>5 DEF AskCode, AskPassword, AskAgain, Prompt, Draw, Redraw
<1>6. CASE LoginFails(t) \/ PersistFails(t) \/ TimezoneFails
  BY <1>0, <1>6 DEF LoginFails, PersistFails, TimezoneFails, Redraw
<1>7. CASE StartFails(t)
  BY <1>0, <1>7 DEF StartFails, Redraw, Number
<1>8. CASE \/ AfterCancel(t) \/ AskOtherPhone \/ AnswerMistaken \/ OfferRestart \/ DeclineRestart
           \/ (Answer /\ gateway = 0) \/ (ConfirmRestart(t) /\ question # revision)
  BY <1>0, <1>8 DEF AfterCancel, AskOtherPhone, AnswerMistaken, OfferRestart, DeclineRestart,
     Answer, ConfirmRestart, Draw
<1> QED BY <1>1, <1>2, <1>3, <1>4, <1>5, <1>6, <1>7, <1>8

\* The steps that leave, or bring, a task at work.
LEMMA LeavesSomebodyAtWork ==
    ASSUME TypeOK, NEW t \in Tasks,
           \/ Begin(t) \/ Cancel(t) \/ UseTelegramPhone(t) \/ AnswerPhone(t) \/ CreateAttempt(t)
           \/ LoginSucceeds(t) \/ Persist(t) \/ RetryLaunch(t) \/ StopWorker(t) \/ Stopped(t)
           \/ (SetTimezone(t) /\ service) \/ (TakeLock(t) /\ ~service)
           \/ (Boot /\ CanServe) \/ (Answer /\ gateway # 0)
           \/ (ConfirmRestart(t) /\ question = revision)
    PROVE  \E u \in Tasks : Working(u)'
<1>1. CASE Begin(t) \/ Cancel(t)
  BY <1>1, Named, TaskAbandons DEF Begin, Cancel, Working
<1>2. CASE UseTelegramPhone(t) \/ AnswerPhone(t)
  BY <1>2, Named, TaskSpawns DEF UseTelegramPhone, AnswerPhone, StartLogin, Working
<1>3. CASE \/ RetryLaunch(t) \/ (SetTimezone(t) /\ service)
           \/ (ConfirmRestart(t) /\ question = revision)
  BY <1>3, Named, TaskSpawns DEF RetryLaunch, SetTimezone, ConfirmRestart, Working
<1>4. CASE Boot /\ CanServe
  BY <1>4, Named, Listed, TaskSpawns DEF Boot, Working
<1>5. CASE \/ CreateAttempt(t) \/ LoginSucceeds(t) \/ Persist(t) \/ StopWorker(t) \/ Stopped(t)
           \/ (TakeLock(t) /\ ~service)
  <2>1. PICK place \in {"connect", "saving", "waiting", "stopping", "starting"} : Go(t, place)
    BY <1>5 DEF CreateAttempt, LoginSucceeds, Ends, Persist, StopWorker, Stopped, TakeLock
  <2>2. At(t)' = place
    BY <2>1, Named, TaskGoes
  <2> QED BY <2>2 DEF Working
<1>6. CASE Answer /\ gateway # 0
  <2>1. PICK place \in {"check_code", "check_password"} : Go(gateway, place)
    BY <1>6 DEF Answer
  <2>2. gateway \in Tasks
    BY <1>6 DEF TypeOK
  <2>3. PICK g \in Tasks : g = gateway
    BY <2>2
  <2>4. At(g)' = place
    BY <2>1, <2>3, Named, TaskGoes
  <2> QED BY <2>4 DEF Working
<1> QED BY <1>1, <1>2, <1>3, <1>4, <1>5, <1>6

\* Every step keeps somebody at work behind a screen without a button.
LEMMA StepWorks == TypeOK /\ WorkInv /\ [Next]_vars => WorkInv'
<1> SUFFICES ASSUME TypeOK, WorkInv, [Next]_vars PROVE WorkInv'
  OBVIOUS
<1>1. CASE UNCHANGED vars
  BY <1>1 DEF vars, shown, WorkInv, Working, At
<1>2. CASE Crash
  BY <1>2 DEF Crash, WorkInv
<1>3. ASSUME NEW t \in Tasks, GiveUp(t) PROVE WorkInv'
  <2>1. At(t) \in {"code", "password"} /\ Go(t, "free") /\ UNCHANGED <<screen, up>>
    BY <1>3 DEF GiveUp, Ends, Asking, shown
  <2>2. \A u \in Tasks : Working(u) => Working(u)'
    BY <2>1, Named, TaskGoes DEF Working
  <2> QED BY <2>1, <2>2 DEF WorkInv
<1>4. 1 \in Tasks
  BY Listed
<1> QED BY <1>1, <1>2, <1>3, <1>4, DrawsAQuietScreen, LeavesSomebodyAtWork
    DEF Next, Types, Taps, Resumes, Misfires, WorkInv

\* A screen without a button is only shown while somebody is at work who will draw the
\* next one: the owner is never left with nothing to press (every handler's last draw).
THEOREM NobodyStranded == Spec => []NeverStranded
<1>1. Init => WorkInv
  BY DEF Init, WorkInv
<1>2. WorkInv => NeverStranded
  BY DEF WorkInv, Working, NeverStranded, Free
<1> QED BY <1>1, <1>2, StepWorks, InitTyped, InitWorker, StepTyped, StepWorker, PTL DEF Spec

-----------------------------------------------------------------------------
(* What a screen says of the rest *)

\* The screens that ask for a number, or for an answer to a login.
NumberScreens == {"choice", "phone", "code", "code_again", "password"}

\* Nobody is asked for a number before the time zone is known; and without a session
\* there is no worker, and the question of the zone or of a wrong code is still open.
ScreenInv ==
    /\ screen \in NumberScreens \/ before = "choice" => zone
    /\ \A t \in Tasks : Live(t) \/ Kind(t) = "zone" => zone
    /\ ~session => /\ screen = "timezone" => ~zone
                   /\ screen = "code_again" => step = "code"
                   /\ ~service
                   /\ \A t \in Tasks : Kind(t) \notin {"zone", "boot"}

\* The gateway is one of a login that lives (MaxOnboarding._gateway).
LoginInv == gateway # 0 => Live(gateway)

\* Which screen a button is on.
LEMMA ButtonLeads ==
    ASSUME NEW sc
    PROVE  /\ "same" \in Buttons(sc) => sc = "choice"
           /\ "other" \in Buttons(sc) => sc = "choice"
           /\ "zone" \in Buttons(sc) => sc = "timezone"
           /\ "begin" \in Buttons(sc) =>
                sc \in {"welcome", "resume", "code_again", "login_failed", "cancelled"}
           /\ "cancel" \in Buttons(sc) => sc # "none"
<1>1. CASE sc \in {"welcome", "resume"}
  BY <1>1 DEF Buttons
<1>2. CASE sc = "timezone"
  BY <1>2 DEF Buttons
<1>3. CASE sc = "choice"
  BY <1>3 DEF Buttons
<1>4. CASE sc \in {"phone", "code", "password"}
  BY <1>4 DEF Buttons
<1>5. CASE sc \in {"code_again", "login_failed"}
  BY <1>5 DEF Buttons
<1>6. CASE sc = "launch_failed"
  BY <1>6 DEF Buttons
<1>7. CASE sc = "cancelled"
  BY <1>7 DEF Buttons
<1>8. CASE sc = "home"
  BY <1>8 DEF Buttons
<1>9. CASE sc = "confirm"
  BY <1>9 DEF Buttons
<1>10. CASE sc \notin {"welcome", "resume", "timezone", "choice", "phone", "code", "password",
                      "code_again", "login_failed", "launch_failed", "cancelled", "home", "confirm"}
  BY <1>10 DEF Buttons
<1> QED BY <1>1, <1>2, <1>3, <1>4, <1>5, <1>6, <1>7, <1>8, <1>9, <1>10

\* A tap is on the screen shown or on the one before, and without a slip on the former.
LEMMA TapMeets ==
    ASSUME NEW b, Tapped(b)
    PROVE  /\ b \in Buttons(screen) \/ b \in Buttons(before)
           /\ ~crossed' => ~crossed /\ b \in Buttons(screen) /\ ~Pending
  BY DEF Tapped

\* Which kind of task stays or goes in each step that starts no login.
LEMMA NoNewLogin ==
    ASSUME TypeOK, NEW t \in Tasks,
           \/ Crash \/ StartCommand \/ Begin(t) \/ AfterBegin(t) \/ Cancel(t) \/ AfterCancel(t)
           \/ (SetTimezone(t) /\ ~service) \/ (Boot /\ ~CanServe)
           \/ TimezoneFails \/ AskOtherPhone
           \/ CreateAttempt(t) \/ AskCode(t) \/ AskPassword(t) \/ AskAgain(t)
           \/ AnswerMistaken \/ Answer \/ GiveUp(t) \/ LoginFails(t) \/ LoginSucceeds(t)
           \/ Persist(t) \/ PersistFails(t) \/ RetryLaunch(t) \/ OfferRestart
           \/ ConfirmRestart(t) \/ DeclineRestart
           \/ TakeLock(t) \/ Started(t) \/ StartFails(t) \/ StopWorker(t) \/ Stopped(t)
           \/ UNCHANGED task
    PROVE  \A u \in Tasks : /\ Live(u)' => Live(u)
                            /\ Kind(u)' \in {"zone", "boot"} => Kind(u)' = Kind(u)
<1> USE Named
<1>1. ASSUME UNCHANGED task
      PROVE  \A u \in Tasks : Live(u)' = Live(u) /\ Kind(u)' = Kind(u)
  BY <1>1 DEF Live, Kind, At
<1>2. CASE Crash
  BY <1>2 DEF Crash, Live, At, Kind, Idle
<1>3. CASE Begin(t) \/ Cancel(t)
  <2>1. PICK k \in {"begin", "cancel"} : Abandon(t, k)
    BY <1>3 DEF Begin, Cancel
  <2>2. /\ At(t)' = "abandoned" /\ Kind(t)' = k
        /\ \A u \in Tasks : u # t => \/ At(u)' = "free" /\ Kind(u)' = "none"
                                     \/ At(u)' = At(u) /\ Kind(u)' = Kind(u)
    BY <2>1, TaskAbandons
  <2> QED BY <2>2 DEF Live
<1>4. ASSUME NEW g \in Tasks, NEW place \in Places, Go(g, place),
             place \in Connecting \union {"sending"} => Live(g)
      PROVE  \A u \in Tasks : /\ Live(u)' => Live(u)
                              /\ Kind(u)' \in {"zone", "boot"} => Kind(u)' = Kind(u)
  BY <1>4, TaskGoes DEF Live
<1>5. CASE CreateAttempt(t) \/ AskCode(t) \/ AskPassword(t) \/ AskAgain(t)
  <2>1. Live(t) /\ \E place \in Places : Go(t, place)
    BY <1>5 DEF CreateAttempt, AskCode, AskPassword, AskAgain, Prompt, Live
  <2> QED BY <1>4, <2>1
<1>6. CASE Answer
  <2>1. CASE gateway = 0
    BY <1>1, <1>6, <2>1 DEF Answer
  <2>2. CASE gateway # 0
    <3>1. gateway \in Tasks /\ Live(gateway) /\ \E place \in Places : Go(gateway, place)
      BY <1>6, <2>2 DEF Answer, TypeOK, Live
    <3> QED BY <1>4, <3>1
  <2> QED BY <2>1, <2>2
<1>7. CASE \/ AfterBegin(t) \/ AfterCancel(t) \/ GiveUp(t) \/ LoginFails(t) \/ LoginSucceeds(t)
           \/ Persist(t) \/ PersistFails(t) \/ TakeLock(t) \/ Started(t) \/ StartFails(t)
           \/ StopWorker(t) \/ Stopped(t)
  <2>1. \E place \in {"free", "saving", "waiting", "starting", "stopping"} : Go(t, place)
    BY <1>7 DEF AfterBegin, AfterCancel, GiveUp, LoginFails, LoginSucceeds, Ends, Persist,
       PersistFails, TakeLock, Served, Started, StartFails, StopWorker, Stopped
  <2> QED BY <1>4, <2>1
<1>8. ASSUME NEW k \in {"launch", "restart"}, NEW place \in {"waiting", "stop"}, Spawn(t, k, place)
      PROVE  \A u \in Tasks : /\ Live(u)' => Live(u)
                              /\ Kind(u)' \in {"zone", "boot"} => Kind(u)' = Kind(u)
  <2>1. At(t)' = place /\ Kind(t)' = k /\ \A u \in Tasks : u # t => At(u)' = At(u) /\ Kind(u)' = Kind(u)
    BY <1>8, TaskSpawns
  <2> QED BY <2>1 DEF Live
<1>9. CASE RetryLaunch(t) \/ ConfirmRestart(t)
  <2>1. UNCHANGED task \/ Spawn(t, "launch", "waiting") \/ Spawn(t, "restart", "stop")
    BY <1>9 DEF RetryLaunch, ConfirmRestart
  <2> QED BY <1>1, <1>8, <2>1
<1>10. CASE \/ StartCommand \/ (SetTimezone(t) /\ ~service) \/ (Boot /\ ~CanServe)
            \/ TimezoneFails \/ AskOtherPhone \/ AnswerMistaken \/ OfferRestart \/ DeclineRestart
            \/ UNCHANGED task
  BY <1>1, <1>10 DEF StartCommand, SetTimezone, Boot, TimezoneFails, AskOtherPhone,
     AnswerMistaken, OfferRestart, DeclineRestart
<1> QED BY <1>2, <1>3, <1>5, <1>6, <1>7, <1>9, <1>10

\* What a step must leave for the screen to say the same of the rest.
ScreenKept ==
    /\ zone => zone'
    /\ session => session'
    /\ before' \in {"none", screen, before}
    /\ screen' \in NumberScreens => screen' = screen \/ zone'
    /\ \A u \in Tasks : /\ Live(u)' => Live(u) \/ zone'
                        /\ Kind(u)' = "zone" => Kind(u) = "zone" \/ zone'
    /\ ~session' =>
          /\ screen' = "timezone" => (screen = screen' /\ zone' = zone) \/ ~zone'
          /\ screen' = "code_again" => (screen = screen' /\ step' = step) \/ step' = "code"
          /\ ~service'
          /\ \A u \in Tasks : Kind(u)' \in {"zone", "boot"} => Kind(u)' = Kind(u)

\* It is enough: what a screen says is kept by such a step.
LEMMA ScreenKeptIsEnough == TypeOK /\ ScreenInv /\ ScreenKept => ScreenInv'
<1> SUFFICES ASSUME TypeOK, ScreenInv, ScreenKept PROVE ScreenInv'
  OBVIOUS
<1>1. screen' \in NumberScreens \/ before' = "choice" => zone'
  BY DEF ScreenKept, ScreenInv, NumberScreens
<1>2. \A u \in Tasks : Live(u)' \/ Kind(u)' = "zone" => zone'
  BY DEF ScreenKept, ScreenInv
<1>3. ASSUME ~session'
      PROVE  /\ screen' = "timezone" => ~zone'
             /\ screen' = "code_again" => step' = "code"
             /\ ~service'
             /\ \A u \in Tasks : Kind(u)' \notin {"zone", "boot"}
  BY <1>3 DEF ScreenKept, ScreenInv
<1> QED BY <1>1, <1>2, <1>3 DEF ScreenInv

\* The steps that write no screen.
LEMMA UnseenKeepsScreen ==
    ASSUME TypeOK, ScreenInv, NEW t \in Tasks,
           \/ Crash \/ Begin(t) \/ Cancel(t) \/ CreateAttempt(t) \/ GiveUp(t) \/ StopWorker(t)
           \/ Stopped(t) \/ (TakeLock(t) /\ ~service) \/ UNCHANGED vars
    PROVE  ScreenInv'
<1>1. UNCHANGED <<screen, before, step, zone, session>>
  BY DEF Crash, Begin, Cancel, CreateAttempt, GiveUp, StopWorker, Stopped, TakeLock, vars,
     config, shown
<1>2. \A u \in Tasks : /\ Live(u)' => Live(u)
                       /\ Kind(u)' \in {"zone", "boot"} => Kind(u)' = Kind(u)
  BY NoNewLogin DEF vars
<1>3. service' => service
  BY DEF Crash, Begin, Cancel, CreateAttempt, GiveUp, StopWorker, Stopped, TakeLock, vars,
     worker, Abandon
<1>4. ScreenKept
  BY <1>1, <1>2, <1>3 DEF ScreenKept, ScreenInv
<1> QED BY <1>4, ScreenKeptIsEnough

\* The steps that draw a screen without a question, or one that only asks what to do next.
LEMMA PlainKeepsScreen ==
    ASSUME TypeOK, ScreenInv, NEW t \in Tasks,
           \/ AfterCancel(t) \/ TimezoneFails \/ Answer \/ LoginFails(t) \/ LoginSucceeds(t)
           \/ Persist(t) \/ PersistFails(t) \/ RetryLaunch(t) \/ OfferRestart
           \/ ConfirmRestart(t) \/ DeclineRestart
    PROVE  ScreenInv'
<1>1. PICK s \in {"cancelled", "launch_failed", "login_failed", "validating", "saving", "starting",
                  "confirm", "restarting", "home"} : screen' = s /\ Passes
  BY DEF AfterCancel, TimezoneFails, Answer, LoginFails, LoginSucceeds, Persist, PersistFails,
     RetryLaunch, OfferRestart, ConfirmRestart, DeclineRestart, Draw, Redraw
<1>2. \A u \in Tasks : /\ Live(u)' => Live(u)
                       /\ Kind(u)' \in {"zone", "boot"} => Kind(u)' = Kind(u)
  BY NoNewLogin
<1>3. CASE LoginSucceeds(t)
  <2>1. UNCHANGED zone /\ session'
    BY <1>3 DEF LoginSucceeds
  <2>2. ScreenKept
    BY <1>1, <1>2, <2>1 DEF ScreenKept, NumberScreens, Passes
  <2> QED BY <2>2, ScreenKeptIsEnough
<1>4. CASE ~LoginSucceeds(t)
  <2>1. UNCHANGED <<zone, service, session>>
    BY <1>4 DEF AfterCancel, TimezoneFails, Answer, LoginFails, Persist, PersistFails,
       RetryLaunch, OfferRestart, ConfirmRestart, DeclineRestart, config, worker
  <2>2. ScreenKept
    BY <1>1, <1>2, <2>1 DEF ScreenKept, ScreenInv, NumberScreens, Passes
  <2> QED BY <2>2, ScreenKeptIsEnough
<1> QED BY <1>3, <1>4

\* The questions a login asks, and a number asked for again: the zone is known by then.
LEMMA QuestionKeepsScreen ==
    ASSUME TypeOK, ScreenInv, NEW t \in Tasks,
           AskCode(t) \/ AskPassword(t) \/ AskAgain(t) \/ AnswerMistaken \/ AskOtherPhone
    PROVE  ScreenInv'
<1>1. PICK s \in {"phone", "code", "password", "code_again"} :
         screen' = s /\ Passes /\ (s = "code_again" => step' = "code")
  BY DEF AskCode, AskPassword, AskAgain, AnswerMistaken, AskOtherPhone, Prompt, Draw, Redraw
<1>2. \A u \in Tasks : /\ Live(u)' => Live(u)
                       /\ Kind(u)' \in {"zone", "boot"} => Kind(u)' = Kind(u)
  BY NoNewLogin
<1>3. UNCHANGED <<zone, service, session>>
  BY DEF AskCode, AskPassword, AskAgain, AnswerMistaken, AskOtherPhone, Prompt, config, worker
<1>4. zone
  <2>1. CASE AskCode(t) \/ AskPassword(t) \/ AskAgain(t)
    <3>1. Live(t)
      BY <2>1 DEF AskCode, AskPassword, AskAgain, Live, Connecting, Checking
    <3> QED BY <3>1 DEF ScreenInv
  <2>2. CASE AnswerMistaken
    BY <2>2 DEF AnswerMistaken, ScreenInv, NumberScreens
  <2>3. CASE AskOtherPhone
    BY <2>3, TapMeets, ButtonLeads DEF AskOtherPhone, ScreenInv, NumberScreens
  <2> QED BY <2>1, <2>2, <2>3
<1>5. ScreenKept
  BY <1>1, <1>2, <1>3, <1>4 DEF ScreenKept, ScreenInv, NumberScreens, Passes
<1> QED BY <1>5, ScreenKeptIsEnough

\* The logins that begin, and the worker that is rebuilt: the zone is known, or was set.
LEMMA NewTaskKeepsScreen ==
    ASSUME TypeOK, ScreenInv, NEW t \in Tasks,
           UseTelegramPhone(t) \/ AnswerPhone(t) \/ (SetTimezone(t) /\ service) \/ (Boot /\ CanServe)
    PROVE  ScreenInv'
<1> USE Named
<1>1. CASE UseTelegramPhone(t) \/ AnswerPhone(t)
  <2>1. zone
    BY <1>1, TapMeets, ButtonLeads DEF UseTelegramPhone, AnswerPhone, ScreenInv, NumberScreens
  <2>2. Spawn(t, "login", "sending") /\ screen' = "sending" /\ Passes
    BY <1>1 DEF UseTelegramPhone, AnswerPhone, StartLogin, Draw
  <2>3. \A u \in Tasks : Kind(u)' = Kind(u) \/ Kind(u)' = "login"
    BY <2>2, TaskSpawns
  <2>4. UNCHANGED <<zone, service, session>>
    BY <1>1 DEF UseTelegramPhone, AnswerPhone, config, worker
  <2>5. ScreenKept
    BY <2>1, <2>2, <2>3, <2>4 DEF ScreenKept, ScreenInv, NumberScreens, Passes
  <2> QED BY <2>5, ScreenKeptIsEnough
<1>2. CASE SetTimezone(t) /\ service
  <2>1. session /\ zone' /\ UNCHANGED <<session, screen, before>>
    BY <1>2 DEF SetTimezone, ScreenInv, shown
  <2>2. ScreenKept
    BY <2>1 DEF ScreenKept
  <2> QED BY <2>2, ScreenKeptIsEnough
<1>3. CASE Boot /\ CanServe
  <2>1. Spawn(1, "boot", "waiting") /\ session /\ UNCHANGED <<session, zone, screen, before>>
    BY <1>3 DEF Boot, CanServe, config, shown
  <2>2. \A u \in Tasks : /\ Live(u)' => Live(u)
                         /\ Kind(u)' = "zone" => Kind(u) = "zone"
    <3>1. 1 \in Tasks
      BY Listed
    <3>2. /\ At(1)' = "waiting" /\ Kind(1)' = "boot"
          /\ \A u \in Tasks : u # 1 => At(u)' = At(u) /\ Kind(u)' = Kind(u)
      BY <2>1, <3>1, TaskSpawns
    <3> QED BY <3>2 DEF Live
  <2>3. ScreenKept
    BY <2>1, <2>2 DEF ScreenKept
  <2> QED BY <2>3, ScreenKeptIsEnough
<1> QED BY <1>1, <1>2, <1>3

\* The screens that depend on how far the deployment is, and those of the worker's end.
LEMMA TurnKeepsScreen ==
    ASSUME TypeOK, ScreenInv, NEW t \in Tasks,
           \/ StartCommand \/ AfterBegin(t) \/ (SetTimezone(t) /\ ~service) \/ (Boot /\ ~CanServe)
           \/ (TakeLock(t) /\ service) \/ Started(t) \/ StartFails(t)
    PROVE  ScreenInv'
<1>1. \A u \in Tasks : /\ Live(u)' => Live(u)
                       /\ Kind(u)' \in {"zone", "boot"} => Kind(u)' = Kind(u)
  BY NoNewLogin
<1>2. step \in Steps /\ Rewound(step) \in Steps /\ stage \in Stages /\ "bridge_running" \in Stages
  BY RewindsToAStep DEF TypeOK, Stages
<1>3. ASSUME AfterBegin(t) \/ StartCommand
      PROVE  ScreenKept
  <2>1. UNCHANGED <<zone, service, session>>
    BY <1>3 DEF AfterBegin, StartCommand, config, worker
  <2>2. CASE zone /\ AskForANumber
    BY <1>1, <2>1, <2>2, AskWrites DEF ScreenKept, ScreenInv, Drawn
  <2>3. CASE Offer
    BY <1>1, <2>1, <2>3, OfferWrites DEF ScreenKept, ScreenInv, Drawn, NumberScreens
  <2> QED BY <1>3, <2>2, <2>3 DEF AfterBegin, StartCommand
<1>4. ASSUME SetTimezone(t) /\ ~service
      PROVE  ScreenKept
  <2>1. zone' /\ UNCHANGED <<service, session>>
    BY <1>4 DEF SetTimezone, worker
  <2>2. AskForANumber \/ Draw("home", step)
    BY <1>4 DEF SetTimezone, AfterZone
  <2>3. "home" \in Screens
    BY DEF Screens
  <2>4. before' \in {"none", screen, before} /\ screen' \in {"home", "choice", "phone"}
    BY <1>2, <2>2, <2>3, AskWrites, DrawWrites DEF Drawn
  <2> QED BY <1>1, <1>4, <2>1, <2>4 DEF ScreenKept, ScreenInv
<1>5. ASSUME Boot /\ ~CanServe
      PROVE  ScreenKept
  <2>1. UNCHANGED <<zone, service, session>>
    BY <1>5 DEF Boot, config, worker
  <2> QED BY <1>1, <1>5, <2>1, BootWrites DEF ScreenKept, ScreenInv, Drawn, NumberScreens
<1>6. ASSUME (TakeLock(t) /\ service) \/ Started(t)
      PROVE  ScreenKept
  <2>1. Served(t, step, stage) \/ Served(t, Rewound(step), "bridge_running")
    BY <1>6 DEF TakeLock, Started
  <2>2. UNCHANGED <<zone, session>> /\ session
    BY <1>6 DEF TakeLock, Started, config, CanServe, ScreenInv
  <2> QED BY <1>1, <1>2, <2>1, <2>2, ServedWrites DEF ScreenKept, ScreenInv, Drawn, NumberScreens
<1>7. ASSUME StartFails(t)
      PROVE  ScreenKept
  <2>1. UNCHANGED <<zone, session, service>>
    BY <1>7 DEF StartFails, config
  <2>2. PICK s \in {"choice", "phone", "home", "launch_failed"} :
          /\ screen' = s /\ Passes
          /\ s \in {"choice", "phone"} => Kind(t) = "zone"
    BY <1>7 DEF StartFails, Redraw, Number
  <2> QED BY <1>1, <2>1, <2>2 DEF ScreenKept, ScreenInv, Passes, NumberScreens
<1> QED BY <1>3, <1>4, <1>5, <1>6, <1>7, ScreenKeptIsEnough

\* Every step keeps what a screen says of the rest.
LEMMA StepScreen == TypeOK /\ ScreenInv /\ [Next]_vars => ScreenInv'
<1> SUFFICES ASSUME TypeOK, ScreenInv, [Next]_vars PROVE ScreenInv'
  OBVIOUS
<1>1. 1 \in Tasks
  BY Listed
<1> QED BY <1>1, UnseenKeepsScreen, PlainKeepsScreen, QuestionKeepsScreen, NewTaskKeepsScreen,
       TurnKeepsScreen
    DEF Next, Types, Taps, Resumes, Misfires

\* At first nothing is asked and nobody logs in.
LEMMA InitScreen == Init => ScreenInv /\ LoginInv
  BY DEF Init, ScreenInv, LoginInv, Live, Kind, At, Idle, NumberScreens, Connecting, Asking, Checking

\* The steps of a login that leave it waiting for MAX or for its owner.
GoesOn(t) == CreateAttempt(t) \/ AskCode(t) \/ AskPassword(t) \/ AskAgain(t)

\* The steps of a task that is past its login, or never was one.
Later(t) ==
    \/ AfterBegin(t) \/ AfterCancel(t) \/ Persist(t) \/ PersistFails(t)
    \/ TakeLock(t) \/ Started(t) \/ StartFails(t) \/ StopWorker(t) \/ Stopped(t)

\* The steps that end a login.
Ending(t) == GiveUp(t) \/ LoginFails(t) \/ LoginSucceeds(t)

\* The steps that change no task.
Idles(t) ==
    \/ StartCommand \/ TimezoneFails \/ AskOtherPhone \/ AnswerMistaken \/ OfferRestart
    \/ DeclineRestart \/ (SetTimezone(t) /\ ~service) \/ (Boot /\ ~CanServe)
    \/ (Answer /\ gateway = 0) \/ (ConfirmRestart(t) /\ question # revision)
    \/ UNCHANGED vars

\* The steps that begin a task that is no login.
Launches(t) ==
    \/ RetryLaunch(t) \/ (SetTimezone(t) /\ service)
    \/ (ConfirmRestart(t) /\ question = revision) \/ (t = 1 /\ Boot /\ CanServe)

\* Every step is of one of these.
LEMMA StepKinds ==
    ASSUME [Next]_vars
    PROVE  \E t \in Tasks :
              \/ GoesOn(t) \/ Later(t) \/ Ending(t) \/ Idles(t) \/ Launches(t) \/ Crash
              \/ Begin(t) \/ Cancel(t) \/ UseTelegramPhone(t) \/ AnswerPhone(t)
              \/ (Answer /\ gateway # 0)
<1>1. 1 \in Tasks
  BY Listed
<1> QED BY <1>1 DEF Next, Types, Taps, Resumes, Misfires, GoesOn, Later, Ending, Idles, Launches

\* A login that goes on keeps the gateway; its creation makes it the attempt.
LEMMA GoesOnMoves ==
    ASSUME TypeOK, NEW t \in Tasks, GoesOn(t)
    PROVE  /\ Live(t) /\ Live(t)' /\ At(t)' \notin Checking
           /\ gateway' = gateway /\ attempt' = (IF CreateAttempt(t) THEN t ELSE attempt)
           /\ \A u \in Tasks : u # t => At(u)' = At(u) /\ Kind(u)' = Kind(u)
           /\ Kind(t)' = Kind(t)
           /\ UNCHANGED <<session, zone, crossed>>
<1>1. \E place \in {"connect", "code", "password"} : Go(t, place)
  BY DEF GoesOn, CreateAttempt, AskCode, AskPassword, AskAgain, Prompt
<1>2. Live(t) /\ gateway' = gateway /\ UNCHANGED <<session, zone, crossed>>
  BY DEF GoesOn, CreateAttempt, AskCode, AskPassword, AskAgain, Prompt, Live, Connecting,
     Checking, login, config
<1>3. attempt' = (IF CreateAttempt(t) THEN t ELSE attempt)
  BY DEF GoesOn, CreateAttempt, AskCode, AskPassword, AskAgain, Prompt, login
<1> QED BY <1>1, <1>2, <1>3, Named, TaskGoes DEF Live, Connecting, Asking, Checking

\* A task that is past its login, or never was one, touches no other's.
LEMMA LaterMoves ==
    ASSUME TypeOK, NEW t \in Tasks, Later(t)
    PROVE  /\ ~Live(t) /\ At(t) # "free" /\ ~Live(t)' /\ At(t)' # "abandoned"
           /\ gateway' = gateway /\ (attempt' # attempt => attempt = t)
           /\ \A u \in Tasks : u # t => At(u)' = At(u) /\ Kind(u)' = Kind(u)
           /\ UNCHANGED <<session, zone, crossed>>
<1>1. PICK place \in {"free", "waiting", "starting", "stopping"} : Go(t, place)
  BY DEF Later, AfterBegin, AfterCancel, Persist, PersistFails, TakeLock, Served, Started,
     StartFails, StopWorker, Stopped
<1>2. At(t) \in {"abandoned", "saving", "waiting", "starting", "stop", "stopping"}
  BY DEF Later, AfterBegin, AfterCancel, Persist, PersistFails, TakeLock, Started,
     StartFails, StopWorker, Stopped
<1>3. gateway' = gateway /\ (attempt' # attempt => attempt = t) /\ UNCHANGED <<session, zone, crossed>>
  BY DEF Later, AfterBegin, AfterCancel, Persist, PersistFails, TakeLock, Served, Started,
     StartFails, StopWorker, Stopped, Finished, login, config
<1> QED BY <1>1, <1>2, <1>3, Named, TaskGoes DEF Live, Connecting, Asking, Checking

\* A login that ends clears the gateway, whoever it belongs to.
LEMMA EndingMoves ==
    ASSUME TypeOK, NEW t \in Tasks, Ending(t)
    PROVE  /\ Live(t) /\ At(t) \in Connecting
           /\ ~Live(t)' /\ At(t)' # "abandoned" /\ gateway' = 0
           /\ (attempt' # 0 => attempt' = attempt)
           /\ \A u \in Tasks : u # t => At(u)' = At(u) /\ Kind(u)' = Kind(u)
           /\ UNCHANGED <<zone, crossed>> /\ (session => session')
<1>1. PICK place \in {"free", "saving"} : Ends(t, place)
  BY DEF Ending, GiveUp, LoginFails, LoginSucceeds
<1>2. At(t) \in Connecting
  BY DEF Ending, GiveUp, LoginFails, LoginSucceeds, Connecting
<1>3. UNCHANGED <<zone, crossed>>
  BY DEF Ending, GiveUp, LoginFails, LoginSucceeds, config
<1>4. session => session'
  BY DEF Ending, GiveUp, LoginFails, LoginSucceeds, config
<1> QED BY <1>1, <1>2, <1>3, <1>4, Named, Forgets, TaskGoes DEF Live, Connecting, Asking, Checking

\* The steps that change no task, and what they draw: only three ask for a number.
LEMMA IdlesDraw ==
    ASSUME TypeOK, NEW t \in Tasks, Idles(t)
    PROVE  /\ UNCHANGED <<task, gateway, attempt, session>> /\ (~crossed' => ~crossed)
           /\ step' \in Asking => step' = step
           /\ screen' \in NumberScreens =>
                \/ screen' = screen
                \/ screen' = "phone" /\ (AskOtherPhone \/ AnswerMistaken)
                \/ SetTimezone(t) /\ ~service
<1>0. /\ step \in Steps /\ Rewound(step) \notin Asking
      /\ Asking \subseteq NumberScreens /\ Number \notin Asking
      /\ NumberScreens = {"choice", "phone", "code", "code_again", "password"}
  BY RewindsToAStep DEF TypeOK, Ephemeral, Asking, NumberScreens, Number
<1>1. UNCHANGED <<task, gateway, attempt, session>>
  BY DEF Idles, StartCommand, TimezoneFails, AskOtherPhone, AnswerMistaken, OfferRestart, DeclineRestart,
     SetTimezone, Boot, Answer, ConfirmRestart, vars, config, login
<1>2. ~crossed' => ~crossed
  BY TapMeets DEF Idles, StartCommand, TimezoneFails, AskOtherPhone, AnswerMistaken, OfferRestart,
     DeclineRestart, SetTimezone, Boot, Answer, ConfirmRestart, vars
<1>3. CASE StartCommand
  BY <1>0, <1>1, <1>2, <1>3, OfferWrites DEF StartCommand
<1>4. CASE Boot /\ ~CanServe
  BY <1>0, <1>1, <1>2, <1>4, BootWrites
<1>5. CASE SetTimezone(t) /\ ~service
  <2>1. AskForANumber \/ Draw("home", step)
    BY <1>5 DEF SetTimezone, AfterZone
  <2>2. step' \in Asking => step' = step
    BY <1>0, <2>1, AskWrites DEF Draw
  <2> QED BY <1>1, <1>2, <1>5, <2>2
<1>6. CASE TimezoneFails \/ UNCHANGED vars
  BY <1>0, <1>1, <1>2, <1>6 DEF TimezoneFails, Redraw, vars, shown
<1>7. CASE AskOtherPhone \/ AnswerMistaken
  <2>1. screen' = "phone" /\ step' \in {"phone", Rewound("phone"), step, Rewound(step)}
    BY <1>7 DEF AskOtherPhone, AnswerMistaken, Draw
  <2>2. "phone" \notin Asking /\ Rewound("phone") \notin Asking
    BY DEF Rewound, Asking, Ephemeral
  <2> QED BY <1>0, <1>1, <1>2, <1>7, <2>1, <2>2
<1>8. CASE \/ OfferRestart \/ DeclineRestart \/ (Answer /\ gateway = 0)
           \/ (ConfirmRestart(t) /\ question # revision)
  <2>1. \E s \in {"confirm", "home", "login_failed"} : Draw(s, step) \/ Draw(s, Rewound(step))
    BY <1>8 DEF OfferRestart, DeclineRestart, Answer, ConfirmRestart
  <2>2. screen' \in {"confirm", "home", "login_failed"} /\ (step' = step \/ step' = Rewound(step))
    BY <1>0, <2>1 DEF Draw, Rewound, Ephemeral
  <2> QED BY <1>0, <1>1, <1>2, <2>2
<1> QED BY <1>3, <1>4, <1>5, <1>6, <1>7, <1>8 DEF Idles

\* What the steps past a login draw: a number is asked for by one of the zone, or by
\* the handler of «begin».
LEMMA LaterDraws ==
    ASSUME TypeOK, NEW t \in Tasks, Later(t), ~AfterBegin(t)
    PROVE  /\ step' \in Asking => step' = step
           /\ screen' \in NumberScreens => screen' = screen \/ Kind(t) = "zone"
<1>0. /\ step \in Steps /\ Rewound(step) \in Steps /\ Rewound(step) \notin Asking
      /\ stage \in Stages /\ "bridge_running" \in Stages
      /\ NumberScreens = {"choice", "phone", "code", "code_again", "password"}
      /\ Number \notin Asking /\ Number \in NumberScreens
  BY RewindsToAStep DEF TypeOK, Ephemeral, Asking, NumberScreens, Number, Stages
<1>1. CASE (TakeLock(t) /\ service) \/ Started(t)
  <2>1. Served(t, step, stage) \/ Served(t, Rewound(step), "bridge_running")
    BY <1>1 DEF TakeLock, Started
  <2> QED BY <1>0, <2>1, ServedWrites
<1>2. CASE (TakeLock(t) /\ ~service) \/ StopWorker(t) \/ Stopped(t)
  BY <1>2 DEF TakeLock, StopWorker, Stopped, shown
<1>3. CASE AfterCancel(t) \/ Persist(t)
  <2>1. Draw("cancelled", "idle") \/ Draw("starting", "starting_bridge")
    BY <1>3 DEF AfterCancel, Persist
  <2>2. {"idle", "starting_bridge", Rewound("idle"), Rewound("starting_bridge")} \cap Asking = {}
    BY DEF Rewound, Ephemeral, Asking
  <2> QED BY <1>0, <2>1, <2>2 DEF Draw
<1>4. CASE PersistFails(t) \/ StartFails(t)
  BY <1>0, <1>4 DEF PersistFails, StartFails, Redraw
<1> QED BY <1>1, <1>2, <1>3, <1>4 DEF Later

\* A task that is launched is no login, and asks for nothing.
LEMMA LaunchMoves ==
    ASSUME TypeOK, NEW t \in Tasks, Launches(t)
    PROVE  /\ UNCHANGED <<gateway, attempt, session>> /\ (~crossed' => ~crossed)
           /\ At(t) = "free" /\ At(t)' \in {"waiting", "stop"}
           /\ \A u \in Tasks : u # t => At(u)' = At(u) /\ Kind(u)' = Kind(u)
           /\ step' \in Asking => step' = step
           /\ screen' \in NumberScreens => screen' = screen
<1>1. PICK k \in Kinds, place \in {"waiting", "stop"} : Spawn(t, k, place)
  BY Named DEF Launches, RetryLaunch, SetTimezone, ConfirmRestart, Boot
<1>2. UNCHANGED <<gateway, attempt, session>> /\ (~crossed' => ~crossed)
  BY TapMeets DEF Launches, RetryLaunch, SetTimezone, ConfirmRestart, Boot, login, config
<1>3. /\ Rewound(step) \notin Asking /\ "starting_bridge" \notin Asking
      /\ Rewound("starting_bridge") \notin Asking
      /\ NumberScreens = {"choice", "phone", "code", "code_again", "password"}
      /\ Rewound(Rewound(step)) \notin Asking
  BY DEF TypeOK, Rewound, Steps, Ephemeral, Asking, NumberScreens
<1>4. /\ step' \in {step, Rewound(step), Rewound(Rewound(step)), "starting_bridge", Rewound("starting_bridge")}
      /\ screen' = screen \/ screen' \in {"starting", "restarting"}
  BY DEF Launches, RetryLaunch, SetTimezone, ConfirmRestart, Boot, Draw, shown
<1>5. /\ At(t) = "free" /\ At(t)' = place
      /\ \A u \in Tasks : u # t => At(u)' = At(u) /\ Kind(u)' = Kind(u)
  BY <1>1, Named, TaskSpawns
<1> QED BY <1>2, <1>3, <1>4, <1>5

\* Every step keeps the gateway one of a login that lives.
LEMMA StepLogin == TypeOK /\ LoginInv /\ [Next]_vars => LoginInv'
<1> SUFFICES ASSUME TypeOK, LoginInv, [Next]_vars PROVE LoginInv'
  OBVIOUS
<1> USE Named
<1>0. PICK t \in Tasks :
              \/ GoesOn(t) \/ Later(t) \/ Ending(t) \/ Idles(t) \/ Launches(t) \/ Crash
              \/ Begin(t) \/ Cancel(t) \/ UseTelegramPhone(t) \/ AnswerPhone(t)
              \/ (Answer /\ gateway # 0)
  BY StepKinds
<1>1. gateway \in Tasks \union {0}
  BY DEF TypeOK
<1>2. CASE Ending(t) \/ Crash \/ Begin(t) \/ Cancel(t)
  <2>1. gateway' = 0
    BY <1>2, EndingMoves DEF Crash, Begin, Cancel, Abandon
  <2> QED BY <2>1 DEF LoginInv
<1>3. CASE GoesOn(t)
  BY <1>1, <1>3, GoesOnMoves DEF LoginInv, Live
<1>4. CASE Later(t)
  BY <1>1, <1>4, LaterMoves DEF LoginInv, Live
<1>5. CASE Launches(t)
  BY <1>1, <1>5, LaunchMoves DEF LoginInv, Live
<1>6. CASE Idles(t)
  BY <1>6, IdlesDraw DEF LoginInv, Live, At
<1>7. CASE UseTelegramPhone(t) \/ AnswerPhone(t)
  <2>1. Spawn(t, "login", "sending") /\ gateway' = t
    BY <1>7 DEF UseTelegramPhone, AnswerPhone, StartLogin
  <2> QED BY <2>1, TaskSpawns DEF LoginInv, Live
<1>8. CASE Answer /\ gateway # 0
  <2>1. PICK g \in Tasks, place \in Checking : g = gateway /\ gateway' = gateway /\ Go(g, place)
    BY <1>1, <1>8 DEF Answer, login
  <2> QED BY <2>1, TaskGoes DEF LoginInv, Live
<1> QED BY <1>0, <1>2, <1>3, <1>4, <1>5, <1>6, <1>7, <1>8

-----------------------------------------------------------------------------
(* One login at a time, until taps cross *)

\* A handler that waits for the attempt it cancelled is the only one that does.
OneWaits == \A t, u \in Tasks : At(t) = "abandoned" /\ At(u) = "abandoned" => t = u

\* Nobody lives while the handler of «begin» waits, and no number is asked for.
NothingBegun == \A t \in Tasks : At(t) = "abandoned" /\ Kind(t) = "begin" =>
    /\ \A u \in Tasks : ~Live(u)
    /\ screen \notin NumberScreens \ {"code_again"}

\* The login that lives is the gateway's and, once created, the attempt; and the step
\* and the screen are ones it can be at.
LiveFits(t) ==
    /\ Live(t) => gateway = t /\ screen # "choice"
    /\ At(t) \in Connecting => attempt = t
    /\ At(t) \in Checking => step \notin Asking
    /\ At(t) \in Asking /\ step \in Asking => step = At(t)
    /\ At(t) = "sending" => screen \notin NumberScreens

\* Until taps cross: with a session no login asks; without one, one login lives.
OneLogin ==
    /\ OneWaits
    /\ session => \A t \in Tasks : At(t) \notin Asking \union Checking
    /\ ~session => NothingBegun /\ \A t \in Tasks : LiveFits(t)

FitInv == ~crossed => OneLogin

\* A login that fits takes the answer to its own question.
LEMMA OneLoginFits == TypeOK /\ LoginInv /\ FitInv => AnswerFits
<1> SUFFICES ASSUME TypeOK, LoginInv, FitInv, ~crossed
             PROVE  /\ \A t \in Tasks : At(t) \in Asking => gateway = t
                    /\ step \in Asking /\ gateway # 0 =>
                         At(gateway) \in {step} \union {"sending", "connect"}
  BY DEF AnswerFits
<1> USE Named
<1>1. OneLogin
  BY DEF FitInv
<1>2. \A t \in Tasks : At(t) \in Asking => gateway = t
  BY <1>1 DEF OneLogin, LiveFits, Live
<1>3. ASSUME gateway # 0, step \in Asking
      PROVE  At(gateway) \in {step} \union {"sending", "connect"}
  BY <1>1, <1>3 DEF OneLogin, LiveFits, LoginInv, Live, TypeOK
<1> QED BY <1>2, <1>3

\* A step in which every task stays where it is, or is where no login is, and the step
\* and the screen ask for nothing new.
LEMMA FrameKeepsFit ==
    ASSUME TypeOK, OneLogin, NEW t \in Tasks, session' = session,
           At(t)' \notin {"abandoned", "sending"} \union Connecting \/ (At(t)' = At(t) /\ Kind(t)' = Kind(t)),
           \A u \in Tasks : u # t => At(u)' = At(u) /\ Kind(u)' = Kind(u),
           gateway' = gateway, attempt' # attempt => attempt = t /\ At(t)' \notin Connecting,
           ~session => /\ step' \in Asking => step' = step
                       /\ screen' \in NumberScreens => screen' = screen
    PROVE  OneLogin'
<1> USE Named
<1>1. OneWaits'
  BY DEF OneLogin, OneWaits
<1>2. \A u \in Tasks : \/ At(u)' \notin {"abandoned", "sending"} \union Connecting
                       \/ At(u)' = At(u) /\ Kind(u)' = Kind(u)
  OBVIOUS
<1>3. session' => \A u \in Tasks : At(u)' \notin Asking \union Checking
  BY <1>2 DEF OneLogin
<1>4. ASSUME ~session'
      PROVE  NothingBegun'
  BY <1>2, <1>4 DEF OneLogin, NothingBegun, Live, NumberScreens
<1>5. ASSUME ~session', NEW u \in Tasks
      PROVE  LiveFits(u)'
  <2>1. LiveFits(u)
    BY <1>5 DEF OneLogin
  <2>2. At(u)' \in Connecting => attempt' = attempt \/ u # attempt
    OBVIOUS
  <2> QED BY <1>2, <1>5, <2>1, <2>2 DEF LiveFits, Live, NumberScreens
<1> QED BY <1>1, <1>3, <1>4, <1>5 DEF OneLogin

\* Steps that touch no task: those that draw a question do it when no login lives.
LEMMA IdlesKeepsFit ==
    ASSUME TypeOK, ScreenInv, OneLogin, NEW t \in Tasks, Idles(t), ~crossed'
    PROVE  OneLogin'
<1> USE Named
<1>1. \A u \in Tasks : At(u)' = At(u) /\ Kind(u)' = Kind(u)
  BY IdlesDraw DEF At, Kind
<1>2. CASE session \/ (screen' \in NumberScreens => screen' = screen)
  BY <1>1, <1>2, IdlesDraw, FrameKeepsFit
<1>3. CASE ~session /\ SetTimezone(t) /\ ~service
  <2>1. screen = "timezone" /\ ~Pending
    BY <1>3, TapMeets, ButtonLeads DEF SetTimezone
  <2>2. \A u \in Tasks : ~Live(u) /\ At(u) # "abandoned"
    BY <1>3, <2>1 DEF ScreenInv, Pending
  <2> QED BY <1>1, <1>3, <2>2, IdlesDraw
      DEF OneLogin, OneWaits, NothingBegun, LiveFits, Live
<1>4. CASE ~session /\ (AskOtherPhone \/ AnswerMistaken) /\ screen' = "phone"
  <2>1. \A u \in Tasks : At(u) = "abandoned" => Kind(u) # "begin"
    <3>1. CASE AskOtherPhone
      BY <3>1, TapMeets DEF AskOtherPhone, Pending
    <3>2. CASE AnswerMistaken
      BY <1>4, <3>2 DEF AnswerMistaken, ScreenInv, OneLogin, NothingBegun, NumberScreens
    <3> QED BY <1>4, <3>1, <3>2
  <2>2. \A u \in Tasks : At(u) # "sending"
    <3>1. CASE AskOtherPhone
      BY <3>1, TapMeets DEF AskOtherPhone, Pending
    <3>2. CASE AnswerMistaken
      BY <1>4, <3>2 DEF AnswerMistaken, OneLogin, LiveFits, NumberScreens
    <3> QED BY <1>4, <3>1, <3>2
  <2>3. \A u \in Tasks : LiveFits(u)'
    BY <1>1, <1>4, <2>2, IdlesDraw DEF OneLogin, LiveFits, Live
  <2> QED BY <1>1, <1>4, <2>1, <2>3, IdlesDraw DEF OneLogin, OneWaits, NothingBegun
<1> QED BY <1>2, <1>3, <1>4, IdlesDraw

\* A login that goes on: it is the only one, and the question it asks is the step's.
LEMMA GoesOnKeepsFit ==
    ASSUME TypeOK, OneLogin, NEW t \in Tasks, GoesOn(t)
    PROVE  OneLogin'
<1> USE Named
<1>0. /\ Live(t) /\ Live(t)' /\ At(t)' \notin Checking /\ gateway' = gateway
      /\ \A u \in Tasks : u # t => At(u)' = At(u) /\ Kind(u)' = Kind(u)
      /\ Kind(t)' = Kind(t) /\ session' = session
  BY GoesOnMoves
<1>1. OneWaits'
  BY <1>0 DEF OneLogin, OneWaits, Live
<1>2. CASE session
  <2>1. CreateAttempt(t)
    BY <1>2 DEF GoesOn, AskCode, AskPassword, AskAgain, OneLogin
  <2>2. At(t)' = "connect"
    BY <2>1, TaskGoes DEF CreateAttempt
  <2> QED BY <1>0, <1>1, <1>2, <2>2 DEF OneLogin
<1>3. CASE ~session
  <2>1. \A u \in Tasks : /\ At(u) = "abandoned" => Kind(u) # "begin"
                         /\ u # t => ~Live(u) /\ ~Live(u)'
    BY <1>0, <1>3 DEF OneLogin, NothingBegun, LiveFits, Live
  <2>2. NothingBegun'
    BY <1>0, <2>1 DEF NothingBegun, Live
  <2>3. CASE CreateAttempt(t)
    <3>1. At(t)' = "connect" /\ attempt' = t /\ UNCHANGED <<screen, step>>
      BY <2>3, TaskGoes DEF CreateAttempt, shown
    <3>2. LiveFits(t)'
      BY <1>0, <1>3, <3>1 DEF OneLogin, LiveFits, Live
    <3> QED BY <1>0, <1>1, <1>3, <2>1, <2>2, <3>2 DEF OneLogin, LiveFits, Live
  <2>4. CASE AskCode(t) \/ AskPassword(t) \/ AskAgain(t)
    <3>1. PICK q \in {"code", "password"} :
            /\ At(t)' = q /\ (step' = q \/ step' = Rewound(q)) /\ screen' # "choice"
            /\ attempt' = attempt
      <4>1. PICK q \in {"code", "password"} :
              /\ Go(t, q) /\ (step' = q \/ step' = Rewound(q)) /\ screen' # "choice"
              /\ attempt' = attempt
        BY <2>4 DEF AskCode, AskPassword, AskAgain, Prompt, Draw, Redraw, login
      <4> QED BY <4>1, TaskGoes
    <3>2. At(t) \in Connecting
      BY <2>4 DEF AskCode, AskPassword, AskAgain
    <3>3. \A a \in {"code", "password"} : Rewound(a) = "phone"
      BY DEF Rewound, Ephemeral
    <3>4. LiveFits(t)'
      BY <1>0, <1>3, <3>1, <3>2, <3>3 DEF OneLogin, LiveFits, Live
    <3> QED BY <1>0, <1>1, <1>3, <2>1, <2>2, <3>4 DEF OneLogin, LiveFits, Live
  <2> QED BY <2>3, <2>4 DEF GoesOn
<1> QED BY <1>2, <1>3

\* The steps past a login: «begin» asks for a number, and by then no login lives.
LEMMA LaterKeepsFit ==
    ASSUME TypeOK, ScreenInv, OneLogin, NEW t \in Tasks, Later(t)
    PROVE  OneLogin'
<1> USE Named
<1>0. /\ ~Live(t) /\ ~Live(t)' /\ At(t)' # "abandoned" /\ gateway' = gateway
      /\ (attempt' # attempt => attempt = t) /\ session' = session
      /\ \A u \in Tasks : u # t => At(u)' = At(u) /\ Kind(u)' = Kind(u)
  BY LaterMoves
<1>1. CASE ~AfterBegin(t)
  <2>1. ~session => /\ step' \in Asking => step' = step
                    /\ screen' \in NumberScreens => screen' = screen
    BY <1>1, LaterDraws DEF ScreenInv
  <2> QED BY <1>0, <2>1, FrameKeepsFit DEF Live
<1>2. CASE AfterBegin(t)
  <2>1. At(t) = "abandoned" /\ Kind(t) = "begin"
    BY <1>2 DEF AfterBegin
  <2>2. \A u \in Tasks : At(u)' # "abandoned"
    BY <1>0, <2>1 DEF OneLogin, OneWaits
  <2>3. ~session => \A u \in Tasks : ~Live(u)'
    BY <1>0, <2>1 DEF OneLogin, NothingBegun, Live
  <2> QED BY <1>0, <2>2, <2>3 DEF OneLogin, OneWaits, NothingBegun, LiveFits, Live
<1> QED BY <1>1, <1>2

\* A login that ends was the only one.
LEMMA EndingKeepsFit ==
    ASSUME TypeOK, OneLogin, NEW t \in Tasks, Ending(t)
    PROVE  OneLogin'
<1> USE Named
<1>0. /\ Live(t) /\ ~Live(t)' /\ At(t)' # "abandoned" /\ gateway' = 0 /\ (session => session')
      /\ \A u \in Tasks : u # t => At(u)' = At(u) /\ Kind(u)' = Kind(u)
  BY EndingMoves
<1>1. OneWaits'
  BY <1>0 DEF OneLogin, OneWaits
<1>2. CASE session
  BY <1>0, <1>1, <1>2 DEF OneLogin, Live
<1>3. CASE ~session
  <2>1. \A u \in Tasks : ~Live(u)'
    BY <1>0, <1>3 DEF OneLogin, LiveFits, Live
  <2>2. \A u \in Tasks : At(u)' = "abandoned" => Kind(u)' # "begin"
    BY <1>0, <1>3 DEF OneLogin, NothingBegun
  <2> QED BY <1>1, <2>1, <2>2 DEF OneLogin, NothingBegun, LiveFits, Live
<1> QED BY <1>2, <1>3

\* «begin» and «cancel» abandon the login that lives, whatever it waits for.
LEMMA AbandonKeepsFit ==
    ASSUME TypeOK, OneLogin, NEW t \in Tasks, Begin(t) \/ Cancel(t), ~crossed'
    PROVE  OneLogin'
<1> USE Named
<1>1. ~Pending /\ UNCHANGED <<session, screen>>
  BY TapMeets DEF Begin, Cancel, config, shown
<1>2. PICK k \in {"begin", "cancel"} : Abandon(t, k) /\ (k = "begin" => Begin(t))
  BY DEF Begin, Cancel
<1>3. /\ At(t)' = "abandoned" /\ Kind(t)' = k
      /\ \A u \in Tasks : u # t =>
           IF u = attempt \/ (u = gateway /\ At(u) \in Asking)
           THEN At(u)' = "free" /\ Kind(u)' = "none"
           ELSE At(u)' = At(u) /\ Kind(u)' = Kind(u)
  BY <1>2, TaskAbandons
<1>4. \A u \in Tasks : At(u) # "abandoned" /\ At(u) # "sending"
  BY <1>1 DEF Pending
<1>5. OneWaits'
  BY <1>3, <1>4 DEF OneWaits
<1>6. CASE session
  BY <1>1, <1>3, <1>5, <1>6 DEF OneLogin
<1>7. CASE ~session
  <2>1. \A u \in Tasks : ~Live(u)'
    BY <1>3, <1>4, <1>7 DEF OneLogin, LiveFits, Live
  <2>2. k = "begin" => screen' \notin NumberScreens \ {"code_again"}
    BY <1>1, <1>2, TapMeets, ButtonLeads DEF Begin, NumberScreens
  <2>3. NothingBegun'
    BY <1>3, <1>4, <2>1, <2>2 DEF NothingBegun
  <2> QED BY <1>1, <1>5, <1>7, <2>1, <2>3 DEF OneLogin, LiveFits, Live
<1> QED BY <1>6, <1>7

\* A login begins when no other lives.
LEMMA StartKeepsFit ==
    ASSUME TypeOK, OneLogin, NEW t \in Tasks, UseTelegramPhone(t) \/ AnswerPhone(t), ~crossed'
    PROVE  OneLogin'
<1> USE Named
<1>1. Spawn(t, "login", "sending") /\ gateway' = t /\ screen' = "sending" /\ session' = session
  BY DEF UseTelegramPhone, AnswerPhone, StartLogin, Draw, config
<1>2. step' \notin Asking
  <2>1. step' \in {"phone", Rewound("phone"), Rewound(step), Rewound(Rewound(step))}
    BY DEF UseTelegramPhone, AnswerPhone, StartLogin, Draw
  <2> QED BY <2>1 DEF Rewound, Ephemeral, Asking
<1>3. /\ At(t) = "free" /\ At(t)' = "sending" /\ Kind(t)' = "login"
      /\ \A u \in Tasks : u # t => At(u)' = At(u) /\ Kind(u)' = Kind(u)
  BY <1>1, TaskSpawns
<1>4. OneWaits'
  BY <1>3 DEF OneLogin, OneWaits
<1>5. CASE session
  BY <1>1, <1>3, <1>4, <1>5 DEF OneLogin
<1>6. CASE ~session
  <2>1. \A u \in Tasks : ~Live(u) /\ (At(u) = "abandoned" => Kind(u) # "begin")
    <3>1. CASE UseTelegramPhone(t)
      <4>1. screen = "choice" /\ ~Pending
        BY <3>1, TapMeets, ButtonLeads DEF UseTelegramPhone
      <4> QED BY <1>6, <4>1 DEF OneLogin, LiveFits, Pending
    <3>2. CASE AnswerPhone(t)
      BY <1>6, <3>2 DEF AnswerPhone, OneLogin, LiveFits, NothingBegun, NumberScreens, Live
    <3> QED BY <3>1, <3>2
  <2>2. \A u \in Tasks : LiveFits(u)'
    BY <1>1, <1>2, <1>3, <2>1 DEF LiveFits, Live, NumberScreens
  <2>3. NothingBegun'
    BY <1>3, <2>1 DEF NothingBegun
  <2> QED BY <1>1, <1>4, <1>6, <2>2, <2>3 DEF OneLogin
<1> QED BY <1>5, <1>6

\* An answer that reaches its login is checked, and the step asks for none meanwhile.
LEMMA AnswerKeepsFit ==
    ASSUME TypeOK, OneLogin, Answer, gateway # 0
    PROVE  OneLogin'
<1> USE Named
<1>1. PICK g \in Tasks, place \in Checking : g = gateway /\ Go(g, place)
  BY DEF Answer, TypeOK
<1>2. /\ At(g) \in Asking /\ gateway' = gateway /\ attempt' = attempt /\ session' = session
      /\ screen' = "validating"
      /\ step' = "validating" \/ step' = Rewound("validating")
  BY <1>1 DEF Answer, login, config, Draw
<1>3. /\ At(g)' = place /\ Kind(g)' = Kind(g)
      /\ \A u \in Tasks : u # g => At(u)' = At(u) /\ Kind(u)' = Kind(u)
  BY <1>1, TaskGoes
<1>4. ~session
  BY <1>2 DEF OneLogin
<1>5. step' \notin Asking
  BY <1>2 DEF Rewound, Ephemeral
<1>6. OneWaits' /\ NothingBegun'
  BY <1>2, <1>3, <1>4 DEF OneLogin, OneWaits, NothingBegun, Live
<1>7. \A u \in Tasks : LiveFits(u)'
  BY <1>1, <1>2, <1>3, <1>4, <1>5 DEF OneLogin, LiveFits, Live, NumberScreens
<1> QED BY <1>2, <1>4, <1>6, <1>7 DEF OneLogin

\* Every step keeps one login at a time, or a tap has crossed.
LEMMA StepFit == TypeOK /\ ScreenInv /\ FitInv /\ [Next]_vars => FitInv'
<1> SUFFICES ASSUME TypeOK, ScreenInv, FitInv, [Next]_vars, ~crossed' PROVE OneLogin'
  BY DEF FitInv
<1>0. PICK t \in Tasks :
              \/ GoesOn(t) \/ Later(t) \/ Ending(t) \/ Idles(t) \/ Launches(t) \/ Crash
              \/ Begin(t) \/ Cancel(t) \/ UseTelegramPhone(t) \/ AnswerPhone(t)
              \/ (Answer /\ gateway # 0)
  BY StepKinds
<1>1. CASE Crash
  <2>1. \A u \in Tasks : At(u)' = "free"
    BY <1>1 DEF Crash, At, Idle
  <2> QED BY <2>1, Named DEF OneLogin, OneWaits, NothingBegun, LiveFits, Live
<1>2. CASE ~Crash
  <2>1. ~crossed
    <3>1. CASE GoesOn(t) \/ Later(t) \/ Ending(t)
      BY <3>1, GoesOnMoves, LaterMoves, EndingMoves
    <3>2. CASE Idles(t) \/ Launches(t)
      BY <3>2, IdlesDraw, LaunchMoves
    <3>3. CASE Begin(t) \/ Cancel(t) \/ UseTelegramPhone(t) \/ AnswerPhone(t) \/ Answer
      BY <3>3, TapMeets DEF Begin, Cancel, UseTelegramPhone, AnswerPhone, Answer
    <3> QED BY <1>0, <1>2, <3>1, <3>2, <3>3
  <2>2. OneLogin
    BY <2>1 DEF FitInv
  <2>3. CASE Launches(t)
    BY <2>2, <2>3, Named, LaunchMoves, FrameKeepsFit
  <2> QED BY <1>0, <1>2, <2>2, <2>3, IdlesKeepsFit, GoesOnKeepsFit, LaterKeepsFit, EndingKeepsFit,
             AbandonKeepsFit, StartKeepsFit, AnswerKeepsFit
<1> QED BY <1>1, <1>2

\* At first no login lives.
LEMMA InitFit == Init => FitInv
  BY Named DEF Init, FitInv, OneLogin, OneWaits, NothingBegun, LiveFits, Live, At, Kind, Idle

\* An answer goes to the login that asked: while no tap has crossed a login, the gateway
\* that takes a code is one that waits for a code, and every login that waits is the one
\* the gateway belongs to (MaxOnboarding.submit, _on_prompt, _login).
THEOREM AnswerReachesItsLogin == Spec => []AnswerFits
<1>1. Init => TypeOK /\ WorkerInv /\ ScreenInv /\ LoginInv /\ FitInv
  BY InitTyped, InitWorker, InitScreen, InitFit
<1>2. TypeOK /\ WorkerInv /\ ScreenInv /\ LoginInv /\ FitInv /\ [Next]_vars
        => (TypeOK /\ WorkerInv /\ ScreenInv /\ LoginInv /\ FitInv)'
  BY StepTyped, StepWorker, StepScreen, StepLogin, StepFit
<1> QED BY <1>1, <1>2, OneLoginFits, PTL DEF Spec
=============================================================================
