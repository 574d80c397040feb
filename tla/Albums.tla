------------------------------- MODULE Albums -------------------------------
(***************************************************************************)
(* Albums (telegram/mtproto_intake.py, routing/owner_echo.py).  Telegram   *)
(* sends an album as one update per part with nothing marking the last, so *)
(* each part is written down as it comes and the group is closed by a      *)
(* timer, once nothing has come for a moment.  Two kinds of group share    *)
(* that machinery: an album the owner wrote, carried to MAX as one message,*)
(* and the echo of an album the bridge delivered, whose ids are bound to   *)
(* the album's aliases.  Flushes of one group may overlap, parts may come  *)
(* late or twice, statements may fail, the process may crash, stop and     *)
(* start with the owner's session away.                                    *)
(***************************************************************************)
EXTENDS Naturals, Sequences, FiniteSets, SequencesExt

CONSTANTS
    NParts,      \* parts of the owner's album
    MaxTimers,   \* timers and flushes of the owner's album alive at once (a bound);
                 \* an echo has one
    MaxRetries,  \* FLUSH_RETRIES
    MaxFaults    \* failing statements, crashes, stops, starts without a session,
                 \* parts sent again

ASSUME AlbumsAssumption ==
    /\ NParts \in Nat \ {0, 1} /\ MaxTimers \in Nat \ {0}
    /\ MaxRetries \in Nat /\ MaxFaults \in Nat

\* "own" is the owner's album; the others are the echoes of the two albums of
\* the same names, delivered in this order.
Album == {"first", "second"}
Group == {"own"} \union Album
Size(g) == IF g = "own" THEN NParts ELSE 2
Part == 1..NParts
PartOf(g) == 1..Size(g)

Slot == 1..MaxTimers
Drainer == 0   \* the flush a shutdown runs itself
SlotOf(g) == IF g = "own" THEN Slot ELSE {1}
Runner(g) == SlotOf(g) \union {Drainer}
Flushing == {"reading", "indexing", "mapping", "recording", "binding",
             "submitting", "sending"}
Nobody == <<>>

VARIABLES
    scene,   \* what is being sent: the owner's album, or two albums which are
             \* of the same structure or not
    buffer,  \* media_group_part, assembly rows: [at, index, row] by group and part
    timer,   \* _timers: the slot of the group's timer, 0 if none
    task,    \* by group and slot: [pc, parts, i, row]
    tries,   \* _retries
    rows,    \* message_map rows of the owner's album: the head each is written under
    job,     \* outbox: the job of each group, [state, parts, row]
    step,    \* the attempt at a binding job: [pc, album, i]
    alias,   \* media_group_part, aliases of delivered albums: [owner, print]
    phase,   \* "up", "draining" or "down"
    drains,  \* groups a shutdown has still to flush
    came,    \* history: the parts that have come
    closed,  \* history: a timer of the owner's album has fired
    late,    \* history: a part of it came after that
    excused, \* history: groups left to a later start, or cut off for good
    cut,     \* history: albums whose binding was interrupted half way
    faults   \* how many of them so far

tables == <<buffer, rows, job, alias>>
timers == <<timer, task, tries>>
history == <<came, closed, late, excused, cut>>
vars == <<scene, tables, timers, step, phase, drains, history, faults>>

Absent == [at |-> FALSE, index |-> 0, row |-> 0]
Idle == [pc |-> "none", parts |-> <<>>, i |-> 0, row |-> 0]
NoJob == [state |-> "none", parts |-> <<>>, row |-> 0]
NoStep == [pc |-> "none", album |-> "first", i |-> 0]

Fault == faults < MaxFaults /\ faults' = faults + 1

Init ==
    /\ scene \in {"owner", "alike", "unlike"}
    /\ buffer = [g \in Group |-> [p \in PartOf(g) |-> Absent]]
    /\ timer = [g \in Group |-> 0]
    /\ task = [g \in Group |-> [s \in Runner(g) |-> Idle]]
    /\ tries = [g \in Group |-> 0]
    /\ rows = <<>>
    /\ job = [g \in Group |-> NoJob]
    /\ step = [g \in Group |-> NoStep]
    /\ alias = [a \in Album |-> [p \in 1..2 |-> [owner |-> Nobody, print |-> TRUE]]]
    /\ phase = "up" /\ drains = {}
    /\ came = [g \in Group |-> {}]
    /\ closed = FALSE /\ late = FALSE /\ excused = {} /\ cut = {}
    /\ faults = 0

Sent(g) == IF scene = "owner" THEN g = "own" ELSE g \in Album

-----------------------------------------------------------------------------
(* Tables *)

Stored(g) == {p \in PartOf(g) : buffer[g][p].at}
Bound(g) == {p \in Stored(g) : buffer[g][p].row # 0}

\* open_owner_groups, open_echo_groups: parts with no canonical row behind them.
OpenGroup(g) == Stored(g) # Bound(g)

\* COALESCE(part_index, telegram_owner_message_id, id): indexes are small and
\* message ids are not, so a part that has its place comes before one that has not.
Before(g, p, q) ==
    LET i == buffer[g][p].index
        j == buffer[g][q].index
    IN \/ i # 0 /\ (j = 0 \/ i < j)
       \/ i = 0 /\ j = 0 /\ p < q

OrderedParts(g) == CHOOSE s \in SetToSeqs(Stored(g)) :
                       \A i, j \in DOMAIN s : i < j => Before(g, s[i], s[j])

\* idx_media_group_part_owner: one row of the table per owner-side message.
OwnerIdTaken(g, p) ==
    \/ buffer[g][p].at
    \/ \E a \in Album, q \in 1..2 : alias[a][q].owner = <<g, p>>

-----------------------------------------------------------------------------
(* Timers *)

FreeSlots(g) == {s \in SlotOf(g) : task[g][s].pc = "none"}

\* _arm: the timer that is registered, and no other, is cancelled.
Armed(g) ==
    \E s \in FreeSlots(g) \union ({timer[g]} \ {0}) :
        /\ timer[g] # 0 => s = timer[g]
        /\ timer[g] = 0 => \A t \in FreeSlots(g) : s <= t
        /\ timer' = [timer EXCEPT ![g] = s]
        /\ task' = [task EXCEPT ![g][s] = [Idle EXCEPT !.pc = "sleeping"]]

\* add_part, then _arm: what is already known adds nothing and re-arms nothing.
Arrive(g, p) ==
    /\ phase # "down" /\ Sent(g) /\ ~OwnerIdTaken(g, p)
    /\ IF p \in came[g] THEN Fault ELSE UNCHANGED faults
    /\ buffer' = [buffer EXCEPT ![g][p] = [Absent EXCEPT !.at = TRUE]]
    /\ Armed(g)
    /\ came' = [came EXCEPT ![g] = @ \union {p}]
    /\ late' = (late \/ (g = "own" /\ closed))
    /\ UNCHANGED <<scene, rows, job, alias, tries, step, phase, drains,
                   closed, excused, cut>>

\* A timer that fires and stays registered.
BadFire(g, s) ==
    /\ phase # "down" /\ task[g][s].pc = "sleeping"
    /\ task' = [task EXCEPT ![g][s].pc = "reading"]
    /\ closed' = (closed \/ g = "own")
    /\ UNCHANGED <<scene, tables, timer, tries, step, phase, drains,
                   came, late, excused, cut, faults>>

\* A timer that fires forgets whichever timer is registered, its own or not.
Fire(g, s) ==
    /\ phase # "down" /\ task[g][s].pc = "sleeping"
    /\ timer' = [timer EXCEPT ![g] = 0]
    /\ task' = [task EXCEPT ![g][s].pc = "reading"]
    /\ closed' = (closed \/ g = "own")
    /\ UNCHANGED <<scene, tables, tries, step, phase, drains,
                   came, late, excused, cut, faults>>

\* A flush that raised and is not come back to.
BadRaised(g, s) ==
    /\ drains' = IF s = Drainer THEN {} ELSE drains
    /\ task' = [task EXCEPT ![g][s] = Idle]
    /\ UNCHANGED <<timer, tries, excused>>

\* _retry; a flush that the shutdown ran ends the shutdown's flushing instead.
Raised(g, s) ==
    /\ drains' = IF s = Drainer THEN {} ELSE drains
    /\ IF s = Drainer
       THEN /\ task' = [task EXCEPT ![g][s] = Idle]
            /\ UNCHANGED <<timer, tries, excused>>
       ELSE IF tries[g] = MaxRetries
       THEN /\ task' = [task EXCEPT ![g][s] = Idle]
            /\ excused' = excused \union {g}
            /\ UNCHANGED <<timer, tries>>
       ELSE /\ tries' = [tries EXCEPT ![g] = @ + 1]
            /\ timer' = [timer EXCEPT ![g] = s]
            /\ task' = [task EXCEPT ![g][s] = [Idle EXCEPT !.pc = "sleeping"]]
            /\ UNCHANGED excused

-----------------------------------------------------------------------------
(* A flush *)

At(g, s, pc) == phase # "down" /\ task[g][s].pc = pc

Goes(g, s, pc) == task' = [task EXCEPT ![g][s].pc = pc]
Ends(g, s) == task' = [task EXCEPT ![g][s] = Idle]
Steps(g, pc, a) == step' = [step EXCEPT ![g] = [pc |-> pc, album |-> a, i |-> 1]]

\* ordered_parts.  What follows for an echo, the submit of its job, is taken with it.
Read(g, s) ==
    /\ At(g, s, "reading") /\ g = "own"
    /\ task' = [task EXCEPT ![g][s] =
         [pc |-> "indexing", parts |-> OrderedParts(g), i |-> 1, row |-> 0]]
    /\ UNCHANGED <<scene, tables, timer, tries, step, phase, drains, history, faults>>

\* assign_part_index: never moves a part, and the unique place refuses a second.
\* Its answer is not looked at.
Index(g, s) ==
    LET t == task[g][s]
        p == t.parts[t.i]
    IN /\ At(g, s, "indexing")
       /\ IF buffer[g][p].index = 0 /\ \E q \in Stored(g) : buffer[g][q].index = t.i
          THEN Raised(g, s) /\ UNCHANGED buffer
          ELSE /\ buffer' = [buffer EXCEPT ![g][p].index = IF @ = 0 THEN t.i ELSE @]
               /\ task' = [task EXCEPT ![g][s] =
                    IF t.i = Len(t.parts) THEN [t EXCEPT !.pc = "mapping"]
                    ELSE [t EXCEPT !.i = @ + 1]]
               /\ UNCHANGED <<timer, tries, drains, excused>>
       /\ UNCHANGED <<scene, rows, job, alias, step, phase, came, closed, late, cut, faults>>

\* The second question, the row under the head's id, not asked.
BadKnown(g, head) == {buffer[g][p].row : p \in Bound(g)}

\* _album_mapping: the parts answer first, then the row under the head's id.
Known(g, head) ==
    IF Bound(g) # {} THEN {buffer[g][p].row : p \in Bound(g)}
    ELSE {r \in DOMAIN rows : rows[r] = head}

MapAlbum(g, s) ==
    LET t == task[g][s] IN
    /\ At(g, s, "mapping")
    /\ IF Known(g, t.parts[1]) = {}
       THEN Goes(g, s, "recording")
       ELSE \E r \in Known(g, t.parts[1]) :
              task' = [task EXCEPT ![g][s].pc = "binding", ![g][s].row = r]
    /\ UNCHANGED <<scene, tables, timer, tries, step, phase, drains, history, faults>>

\* _record_intake
Record(g, s) ==
    /\ At(g, s, "recording")
    /\ rows' = Append(rows, task[g][s].parts[1])
    /\ task' = [task EXCEPT ![g][s].pc = "binding", ![g][s].row = Len(rows) + 1]
    /\ UNCHANGED <<scene, buffer, job, alias, timer, tries, step, phase, drains,
                   history, faults>>

\* bind_link: only what is not bound yet.
BindLink(g, s) ==
    /\ At(g, s, "binding")
    /\ buffer' = [buffer EXCEPT ![g] = [p \in PartOf(g) |->
         IF @[p].at /\ @[p].row = 0 THEN [@[p] EXCEPT !.row = task[g][s].row] ELSE @[p]]]
    /\ Goes(g, s, "submitting")
    /\ UNCHANGED <<scene, rows, job, alias, timer, tries, step, phase, drains,
                   history, faults>>

\* claim_for_attempt under the group's key: one job per group.  The flush that
\* made the job takes its first attempt.
Submit(g, s) ==
    LET t == task[g][s] IN
    /\ At(g, s, "submitting")
    /\ IF job[g].state # "none"
       THEN Ends(g, s) /\ UNCHANGED job
       ELSE /\ job' = [job EXCEPT ![g] =
                 [state |-> "queued", parts |-> t.parts, row |-> t.row]]
            /\ Goes(g, s, "sending")
    /\ UNCHANGED <<scene, buffer, rows, alias, timer, tries, step, phase, drains,
                   history, faults>>

\* on_contact_album_echo.  The attempt is a process of its own here, which no
\* later step of the flush waits for.
SubmitEcho(g, s) ==
    /\ At(g, s, "reading") /\ g \in Album
    /\ IF Stored(g) = {} \/ job[g].state # "none"
       THEN UNCHANGED <<job, step>>
       ELSE /\ job' = [job EXCEPT ![g] =
                 [state |-> "running", parts |-> OrderedParts(g), row |-> 0]]
            /\ Steps(g, "clearing", "first")
    /\ Ends(g, s)
    /\ UNCHANGED <<scene, buffer, rows, alias, timer, tries, phase, drains,
                   history, faults>>

\* The attempt at the owner's job has been made.  What becomes of the job is the
\* queue's business; a failed attempt is raised to the flush.
Attempted(g, s) ==
    /\ At(g, s, "sending")
    /\ \/ Ends(g, s) /\ UNCHANGED <<timer, tries, drains, excused, faults>>
       \/ Fault /\ Raised(g, s)
    /\ UNCHANGED <<scene, tables, step, phase, came, closed, late, cut>>

\* Any statement of a flush may raise.
FlushFails(g, s) ==
    /\ \E pc \in Flushing \ {"sending"} : At(g, s, pc)
    /\ Fault
    /\ Raised(g, s)
    /\ UNCHANGED <<scene, tables, step, phase, came, closed, late, cut>>

Flush(g, s) == \/ Read(g, s) \/ Index(g, s) \/ MapAlbum(g, s) \/ Record(g, s)
               \/ BindLink(g, s) \/ Submit(g, s) \/ Attempted(g, s) \/ SubmitEcho(g, s)

-----------------------------------------------------------------------------
(* Binding an echo (resolve_album_echo) *)

Structure(g) == IF scene = "alike" THEN "same" ELSE g

\* oldest_unbound_album: an album with a part that waits for its owner-side id.
Waiting(a) == \E p \in 1..2 : alias[a][p].owner = Nobody /\ alias[a][p].print
Heads == IF Waiting("first") THEN {"first"}
         ELSE IF Waiting("second") THEN {"second"} ELSE {}

\* The kinds and fingerprints of the parts not compared.
BadMatches(a, g) == Len(job[g].parts) = 2 /\ \A p \in 1..2 : alias[a][p].print

Matches(a, g) ==
    /\ Len(job[g].parts) = 2 /\ \A p \in 1..2 : alias[a][p].print
    /\ Structure(a) = Structure(g)

Trying(g, pc) == phase # "down" /\ step[g].pc = pc
Settles(g, state) ==
    /\ job' = [job EXCEPT ![g].state = state]
    /\ step' = [step EXCEPT ![g] = NoStep]

\* An attempt given up between two parts leaves the album half bound.
CutBy(G) == cut \union {step[g].album : g \in {h \in G :
                            step[h].pc = "attaching" /\ step[h].i > 1}}

RunJob(g) ==
    /\ phase = "up" /\ job[g].state = "pending"
    /\ job' = [job EXCEPT ![g].state = "running"]
    /\ Steps(g, "clearing", "first")
    /\ UNCHANGED <<scene, buffer, rows, alias, timers, phase, drains, history, faults>>

\* The payload is the durable record now: the buffered rows go.
Clear(g) ==
    /\ Trying(g, "clearing")
    /\ buffer' = [buffer EXCEPT ![g] = [p \in PartOf(g) |-> Absent]]
    /\ Steps(g, "heading", "first")
    /\ UNCHANGED <<scene, rows, job, alias, timers, phase, drains, history, faults>>

\* What is bound already is a success.  A head that is not this echo's is waited
\* for ...
TestHead(g) ==
    /\ Trying(g, "heading")
    /\ \/ /\ OwnerIdTaken(g, job[g].parts[1]) \/ Heads = {}
          /\ Settles(g, "done")
       \/ /\ ~OwnerIdTaken(g, job[g].parts[1])
          /\ \E a \in Heads :
               IF Matches(a, g) THEN Steps(g, "attaching", a) /\ UNCHANGED job
               ELSE Settles(g, "pending")
    /\ UNCHANGED <<scene, buffer, rows, alias, timers, phase, drains, history, faults>>

\* ... and given up on when GIVE_UP_MS have passed since the echo was seen.
GiveUp(g) ==
    /\ Trying(g, "heading") /\ ~OwnerIdTaken(g, job[g].parts[1])
    /\ \E a \in Heads : ~Matches(a, g) /\ Steps(g, "stopping", a)
    /\ UNCHANGED <<scene, tables, timers, phase, drains, history, faults>>

\* attach_owner_message, part by part: an empty column takes the value, the same
\* value is a success, and anything else is put to the owner.
CanAttach(a, i, owner) ==
    \/ alias[a][i].owner = owner
    \/ alias[a][i].owner = Nobody /\ ~OwnerIdTaken(owner[1], owner[2])

Attach(g) ==
    LET a == step[g].album
        i == step[g].i
        owner == <<g, job[g].parts[i]>>
    IN /\ Trying(g, "attaching")
       /\ IF CanAttach(a, i, owner)
          THEN /\ alias' = [alias EXCEPT ![a][i].owner = owner]
               /\ IF i = 2 THEN Settles(g, "done")
                  ELSE step' = [step EXCEPT ![g].i = i + 1] /\ UNCHANGED job
               /\ UNCHANGED cut
          ELSE /\ Settles(g, "ambiguous") /\ cut' = CutBy({g})
               /\ UNCHANGED alias
       /\ UNCHANGED <<scene, buffer, rows, timers, phase, drains,
                      came, closed, late, excused, faults>>

\* stop_binding, part by part, on what has no owner-side id.
StopBinding(g) ==
    LET a == step[g].album
        i == step[g].i
    IN /\ Trying(g, "stopping")
       /\ alias' = [alias EXCEPT ![a][i].print = @ /\ alias[a][i].owner # Nobody]
       /\ IF i = 2 THEN Steps(g, "following", a)
          ELSE step' = [step EXCEPT ![g].i = i + 1]
       /\ UNCHANGED <<scene, buffer, rows, job, timers, phase, drains, history, faults>>

TestFollowing(g) ==
    /\ Trying(g, "following")
    /\ \/ \E a \in Heads : Matches(a, g) /\ Steps(g, "attaching", a) /\ UNCHANGED job
       \/ (\A a \in Heads : ~Matches(a, g)) /\ Settles(g, "ambiguous")
    /\ UNCHANGED <<scene, buffer, rows, alias, timers, phase, drains, history, faults>>

\* A statement of the attempt raises: the job goes back to the worker.
BindingFails(g) ==
    /\ phase # "down" /\ step[g].pc # "none"
    /\ Fault
    /\ Settles(g, "pending")
    /\ cut' = CutBy({g})
    /\ UNCHANGED <<scene, buffer, rows, alias, timers, phase, drains,
                   came, closed, late, excused>>

Bind(g) == \/ RunJob(g) \/ Clear(g) \/ TestHead(g) \/ Attach(g)
           \/ StopBinding(g) \/ TestFollowing(g)

-----------------------------------------------------------------------------
(* Stops, crashes and starts *)

\* Everything in memory is gone.  A group that is bound and has no job will not
\* be found by any start.
Gone ==
    /\ phase' = "down" /\ drains' = {}
    /\ timer' = [g \in Group |-> 0]
    /\ task' = [g \in Group |-> [s \in Runner(g) |-> Idle]]
    /\ tries' = [g \in Group |-> 0]
    /\ job' = [g \in Group |->
         IF job[g].state = "running" THEN [job[g] EXCEPT !.state = "pending"] ELSE job[g]]
    /\ step' = [g \in Group |-> NoStep]
    /\ cut' = CutBy(Album)
    /\ excused' = IF Bound("own") # {} /\ job["own"].state = "none"
                  THEN excused \union {"own"} ELSE excused
    /\ UNCHANGED <<scene, buffer, rows, alias, came, closed, late>>

Crash == phase # "down" /\ Fault /\ Gone

\* A shutdown's flush of one group: its timer is cancelled, if it has one still.
Drained(g) ==
    /\ timer' = [timer EXCEPT ![g] = 0]
    /\ task' = [task EXCEPT ![g] = [s \in DOMAIN @ |->
         IF s = Drainer THEN [Idle EXCEPT !.pc = "reading"]
         ELSE IF s = timer[g] THEN Idle ELSE @[s]]]
    /\ closed' = (closed \/ g = "own")

\* flush_albums, flush_echo_albums: the groups that have a timer, one after the
\* other; a flush already under way is not waited for.
Stop ==
    /\ phase = "up" /\ Fault
    /\ phase' = "draining"
    /\ LET waiting == {g \in Group : timer[g] # 0} IN
       \/ waiting = {} /\ drains' = {} /\ UNCHANGED <<timer, task, closed>>
       \/ \E g \in waiting : drains' = waiting \ {g} /\ Drained(g)
    /\ UNCHANGED <<scene, tables, tries, step, came, late, excused, cut>>

Draining == \E g \in Group : task[g][Drainer].pc # "none"

DrainNext(g) ==
    /\ phase = "draining" /\ ~Draining /\ g \in drains
    /\ drains' = drains \ {g}
    /\ Drained(g)
    /\ UNCHANGED <<scene, tables, tries, step, phase, came, late, excused, cut, faults>>

Exit == phase = "draining" /\ ~Draining /\ drains = {} /\ Gone /\ UNCHANGED faults

\* A start whose session comes up takes back every open group; one that finds
\* the session away takes back none, and nothing does so later.
Start ==
    /\ phase = "down" /\ phase' = "up"
    /\ \/ /\ timer' = [g \in Group |-> IF OpenGroup(g) THEN 1 ELSE 0]
          /\ task' = [g \in Group |-> [task[g] EXCEPT ![1] =
               IF OpenGroup(g) THEN [Idle EXCEPT !.pc = "sleeping"] ELSE Idle]]
          /\ excused' = {g \in excused : ~OpenGroup(g)}
          /\ UNCHANGED faults
       \/ /\ Fault
          /\ excused' = excused \union {g \in Group : OpenGroup(g)}
          /\ UNCHANGED <<timer, task>>
    /\ UNCHANGED <<scene, tables, tries, step, drains, came, closed, late, cut>>

Next ==
    \/ \E g \in Group :
        \/ \E p \in PartOf(g) : Arrive(g, p)
        \/ \E s \in Runner(g) : Fire(g, s) \/ Flush(g, s) \/ FlushFails(g, s)
        \/ DrainNext(g)
    \/ \E g \in Album : Bind(g) \/ GiveUp(g) \/ BindingFails(g)
    \/ Crash \/ Stop \/ Exit \/ Start

Spec == Init /\ [][Next]_vars

Runs == \/ \E g \in Group : DrainNext(g) \/ \E s \in Runner(g) : Fire(g, s) \/ Flush(g, s)
        \/ Exit \/ Start

\* The event loop runs ready coroutines and timers on, and a process that ends is
\* started again; the worker comes back to every job that is due, and the time of
\* an echo whose head never comes runs out.
Fairness ==
    /\ WF_vars(Runs)
    /\ \A g \in Album : WF_vars(Bind(g)) /\ SF_vars(GiveUp(g))

FairSpec == Spec /\ Fairness

-----------------------------------------------------------------------------
(* Properties *)

TypeOK ==
    /\ scene \in {"owner", "alike", "unlike"}
    /\ \A g \in Group : \A p \in PartOf(g) :
        buffer[g][p] \in [at : BOOLEAN, index : 0..NParts, row : 0..Len(rows)]
    /\ timer \in [Group -> Slot \union {0}]
    /\ \A g \in Group : \A s \in Runner(g) :
        /\ task[g][s].pc \in Flushing \union {"none", "sleeping"}
        /\ task[g][s].parts \in Seq(Part) /\ task[g][s].row \in 0..Len(rows)
    /\ \A g \in Group : timer[g] # 0 => task[g][timer[g]].pc = "sleeping"
    /\ tries \in [Group -> 0..MaxRetries]
    /\ rows \in Seq(Part)
    /\ \A g \in Group :
        /\ job[g].state \in {"none", "queued", "pending", "running", "done", "ambiguous"}
        /\ job[g].parts \in Seq(Part)
    /\ \A a \in Album, p \in 1..2 :
        alias[a][p] \in [owner : {Nobody} \union (Album \X Part), print : BOOLEAN]
    /\ phase \in {"up", "draining", "down"} /\ drains \subseteq Group

\* The sequence of all these numbers from the lowest to the highest.
Ascending(s, S) == /\ s \in SetToSeqs(S)
                   /\ \A i, j \in DOMAIN s : i < j => s[i] < s[j]

\* The owner's album goes to MAX whole, in the order of its message ids, under
\* one mapping row that every part resolves to, whatever fails or crashes while
\* it is carried; only a part that came after the group was closed is apart
\* (OwnerAlbums.flush, on_telegram_media, _album_mapping).
CarriedWhole ==
    job["own"].state # "none" /\ ~late =>
        /\ Ascending(job["own"].parts, Stored("own"))
        /\ Len(rows) = 1
        /\ \A p \in Stored("own") : buffer["own"][p].row = job["own"].row
                                    /\ job["own"].parts[buffer["own"][p].index] = p

\* A delivered album takes its owner-side ids from one echo, position by
\* position, all of them unless the binding was interrupted, and never from the
\* echo of an album of another structure (resolve_album_echo, _attach).
BoundAsOne ==
    \A a \in Album : \E g \in Album :
        LET bound == {p \in 1..2 : alias[a][p].owner # Nobody} IN
        /\ \A p \in bound : alias[a][p].owner = <<g, p>>
        /\ bound # {} => Structure(a) = Structure(g)
        /\ \/ bound \in {{}, 1..2} \/ a \in cut
           \/ step[g].pc = "attaching" /\ step[g].album = a /\ step[g].i = 2

\* What has been written down is carried or bound in the end, without another
\* part or another start being needed, except what a flush gave up on, what a
\* start without a session left open and what a crash cut off.
AlbumsFinish ==
    <>[](\A g \in Group :
           Stored(g) # {} => \/ job[g].state \in {"queued", "done", "ambiguous"}
                            \/ g \in excused)

\* on_telegram_media: "from here every part of this album resolves to this one
\* row, and the group is finished as far as a restart is concerned".
FinishedIsCarried ==
    /\ phase = "up" /\ Bound("own") # {} /\ job["own"].state = "none"
    => \E s \in Slot : task["own"][s].pc # "none"
=============================================================================
