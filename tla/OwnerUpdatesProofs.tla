------------------------- MODULE OwnerUpdatesProofs -------------------------
(***************************************************************************)
(* For any number of updates, messages, tasks and faults: the types, one   *)
(* handler at a time for a message (LInv), that no update is finished      *)
(* before its effects are durable (DInv), that the changes handed to the   *)
(* queue add up to the stored version (SumInv), and that MAX is left       *)
(* showing that version (ToldInv).                                         *)
(***************************************************************************)
EXTENDS OwnerUpdates, KeyedLockProofs, SequenceTheorems

\* What has to be on disk before the row of an update may go.
Durable(u) == IF Update[u].family = "delete" THEN job[<<"delete", u>>] # "none"
              ELSE version[Of(u)].known /\ version[Of(u)].pts >= u

Pcs == {"idle", "entering", "locked", "deriving", "attempting", "requesting",
        "accounting", "dropping"}
Typed == /\ version \in [Messages -> [known : BOOLEAN, pts : 0..LastPts]]
         /\ row \in [Updates -> Row]
         /\ task \in [Tasks -> [pc : Pcs, on : 0..LastPts, todo : Seq(Kinds)]]
         /\ batch \subseteq Updates
         /\ job \in [Effects -> {"none", "pending", "inflight", "done"}]
         /\ worker \in [pc : {"idle"}, job : {NoJob}]
                       \cup [pc : {"resolving", "requesting"}, job : Effects]
         /\ faults \in Nat

\* A task under way has an update, and what it takes up is in its list; only snapshots
\* go through the lock; who finishes a row may; and a deletion that is not on the queue
\* is still to be put there.
Sound(t) ==
    /\ task[t].pc # "idle" => task[t].on \in Updates
    /\ task[t].pc \in {"attempting", "requesting"} => task[t].todo # << >>
    /\ task[t].pc \in {"entering", "locked"} => Update[task[t].on].family # "delete"
    /\ task[t].pc \in {"accounting", "dropping"} => Durable(task[t].on)
    /\ task[t].pc \in {"deriving", "attempting", "requesting"}
         /\ Update[task[t].on].family = "delete" =>
              \/ Durable(task[t].on)
              \/ task[t].pc = "deriving" /\ task[t].todo = <<"delete">>
DInv == Typed /\ (\A t \in Tasks : Sound(t)) /\ AccountedIsDurable

\* What is durable stays: jobs and versions are never taken back.
Grows == /\ \A e \in Effects : job[e] # "none" => job'[e] # "none"
         /\ \A k \in Messages : version[k].known =>
              version'[k].known /\ version'[k].pts >= version[k].pts

USE DEF OwnerUpdatesAssumption, Updates, Messages, Kinds

\* What the constants give.
LEMMA Constants ==
  /\ LastPts \in Nat
  /\ Drain \in Tasks /\ Updates \subseteq Tasks /\ Tasks \subseteq Nat
  /\ \A u \in Updates : Of(u) \in Messages /\ <<"delete", u>> \in Effects
  BY OwnerUpdatesAssumption DEF Drain, Of, Effects

\* Versions are numbers.
LEMMA VersionsTyped ==
  ASSUME Typed
  PROVE  /\ \A k \in Messages : version[k] \in [known : BOOLEAN, pts : 0..LastPts]
         /\ \A k \in Messages : version[k].pts \in Nat
<1>1. \A k \in Messages : version[k] \in [known : BOOLEAN, pts : 0..LastPts]
  BY DEF Typed
<1>2. \A n \in 0..LastPts : n \in Nat
  OBVIOUS
<1> QED  BY <1>1, <1>2

\* The effect a task carries is one of its update's.
LEMMA InHandTyped ==
  ASSUME Typed, NEW t \in Tasks, Sound(t), task[t].pc # "idle", task[t].todo # << >>
  PROVE  /\ InHand(t) \in Effects
         /\ Tail(task[t].todo) \in Seq(Kinds)
         /\ Head(task[t].todo) = "delete" => InHand(t) = <<"delete", task[t].on>>
<1>1. task[t].todo \in Seq(Kinds) /\ task[t].on \in Updates
  BY DEF Typed, Sound
<1>2. Head(task[t].todo) \in Kinds /\ Tail(task[t].todo) \in Seq(Kinds)
  BY <1>1
<1> QED  BY <1>1, <1>2 DEF InHand, Effects

\* What a reading derives is a list of effects.
LEMMA DerivedTyped == \A u, v : Derived(u, v) \in Seq(Kinds)
<1> SUFFICES ASSUME NEW u, NEW v PROVE Derived(u, v) \in Seq(Kinds)
  OBVIOUS
<1> DEFINE a == IF Text(u) # Text(v.pts) THEN <<"edit">> ELSE << >>
           b == IF Reaction(u) # Reaction(v.pts) THEN <<"reaction">> ELSE << >>
<1>1. a \in Seq(Kinds) /\ b \in Seq(Kinds)
  <2>1. <<"edit">> \in Seq(Kinds) /\ <<"reaction">> \in Seq(Kinds) /\ << >> \in Seq(Kinds)
    OBVIOUS
  <2> QED  BY <2>1, Zenon
<1>2. Derived(u, v) = IF v.known THEN a \o b ELSE << >>
  BY DEF Derived, Changes
<1> HIDE DEF a, b
<1> QED  BY <1>1, <1>2

-----------------------------------------------------------------------------
(* Types *)

\* Turning to the next effect, or moving on, keeps the tasks typed.
LEMMA TurnTyped ==
  ASSUME Typed, NEW t \in Tasks, NEW pc \in Pcs,
         \/ Goes(t, pc)
         \/ Turns(t, pc) /\ Tail(task[t].todo) \in Seq(Kinds)
         \/ Ends(t)
  PROVE  task' \in [Tasks -> [pc : Pcs, on : 0..LastPts, todo : Seq(Kinds)]]
<1>1. CASE Goes(t, pc)
  BY <1>1 DEF Typed, Goes
<1>2. CASE Turns(t, pc) /\ Tail(task[t].todo) \in Seq(Kinds)
  BY <1>2 DEF Typed, Turns
<1>3. CASE Ends(t)
  BY <1>3, OwnerUpdatesAssumption DEF Typed, Ends, IdleTask, Pcs
<1> QED  BY <1>1, <1>2, <1>3

-----------------------------------------------------------------------------
(* What is durable stays *)

\* An update whose effects are durable keeps them.
LEMMA DurableStays ==
  ASSUME Typed, Typed', Grows, NEW u \in Updates, Durable(u)
  PROVE  Durable(u)'
<1>1. Of(u) \in Messages /\ <<"delete", u>> \in Effects
  BY Constants
<1>2. CASE Update[u].family = "delete"
  BY <1>1, <1>2 DEF Durable, Grows
<1>3. CASE Update[u].family # "delete"
  <2>1. /\ version[Of(u)].known /\ version[Of(u)].pts >= u
        /\ version'[Of(u)].known /\ version'[Of(u)].pts >= version[Of(u)].pts
    BY <1>1, <1>3 DEF Durable, Grows
  <2>2. version[Of(u)].pts \in Nat /\ version'[Of(u)].pts \in Nat /\ u \in Nat
    <3>1. \A k \in Messages : version[k].pts \in Nat
      BY VersionsTyped
    <3>2. \A k \in Messages : version'[k].pts \in Nat
      <4>1. \A k \in Messages : version'[k] \in [known : BOOLEAN, pts : 0..LastPts]
        BY DEF Typed
      <4>2. \A n \in 0..LastPts : n \in Nat
        OBVIOUS
      <4> QED  BY <4>1, <4>2
    <3>3. u \in Nat
      BY Constants
    <3> QED  BY <1>1, <3>1, <3>2, <3>3
  <2>3. version'[Of(u)].pts >= u
    BY <2>1, <2>2
  <2> QED  BY <1>3, <2>1, <2>3 DEF Durable
<1> QED  BY <1>2, <1>3

\* A task that did nothing is as sound as it was.
LEMMA SoundStays ==
  ASSUME Typed, Typed', Grows, NEW s \in Tasks, Sound(s), task'[s] = task[s]
  PROVE  Sound(s)'
<1>1. \A u \in Updates : Durable(u) => Durable(u)'
  BY DurableStays
<1> QED  BY <1>1 DEF Sound, Durable

\* A step of one task, judged by that task and by the rows it finishes.
LEMMA OneTask ==
  ASSUME DInv, Typed', Grows, NEW t \in Tasks, Sound(t)',
         \A s \in Tasks : s # t => task'[s] = task[s],
         \A u \in Updates : row'[u].state \in {"accounted", "dropped"} =>
             row[u].state \in {"accounted", "dropped"} \/ Durable(u)
  PROVE  DInv'
<1>1. \A s \in Tasks : Sound(s)'
  BY SoundStays DEF DInv
<1>2. ASSUME NEW u \in Updates, row'[u].state \in {"accounted", "dropped"}
      PROVE  Durable(u)'
  <2>1. Durable(u)
    BY <1>2 DEF DInv, AccountedIsDurable, Durable
  <2> QED  BY <2>1, DurableStays DEF DInv
<1>3. AccountedIsDurable'
  BY <1>2 DEF AccountedIsDurable, Durable
<1> QED  BY <1>1, <1>3 DEF DInv

\* A step of nobody's: the tasks are left alone and no row is finished.
LEMMA NoTask ==
  ASSUME DInv, Typed', Grows, UNCHANGED task,
         \A u \in Updates : row'[u].state \in {"accounted", "dropped"} =>
             row[u].state \in {"accounted", "dropped"}
  PROVE  DInv'
<1>1. Drain \in Tasks /\ Sound(Drain)'
  BY Constants, SoundStays DEF DInv
<1> QED  BY <1>1, OneTask

\* Where no job and no version changes.
LEMMA SameStays ==
  ASSUME Typed, UNCHANGED <<version, job>>
  PROVE  Grows
<1>1. \A k \in Messages : version[k].pts \in Nat
  BY VersionsTyped
<1> QED  BY <1>1 DEF Grows

-----------------------------------------------------------------------------
(* Steps of nobody's *)

\* The forms a row takes.
LEMMA RowForms ==
  /\ \A b \in BOOLEAN : Open(b) \in Row /\ Open(b).state = "open"
  /\ NoRow \in Row
  /\ \A s \in {"accounted", "dropped"} : [NoRow EXCEPT !.state = s] \in Row
  /\ [state |-> "claimed", due |-> FALSE, lapsed |-> FALSE] \in Row
  /\ \A r \in Row : /\ r.state = "open" => [r EXCEPT !.due = TRUE] \in Row
                    /\ r.state = "claimed" => [r EXCEPT !.lapsed = TRUE] \in Row
  BY DEF Row, Open, NoRow

\* The outcome of a request is a job settled or one that waits again.
LEMMA RequestedTyped ==
  ASSUME Typed, NEW e \in Effects, Requested(e)
  PROVE  /\ job' \in [Effects -> {"none", "pending", "inflight", "done"}]
         /\ \A d \in Effects : job[d] # "none" => job'[d] # "none"
         /\ faults' \in Nat
<1>1. /\ job' = [job EXCEPT ![e] = "done"] \/ job' = [job EXCEPT ![e] = "pending"]
      /\ faults' = faults \/ faults' = faults + 1
  BY DEF Requested, Fault
<1>2. job \in [Effects -> {"none", "pending", "inflight", "done"}] /\ faults \in Nat
  BY DEF Typed
<1> QED  BY <1>1, <1>2

\* seed moves a version from unknown to known and touches nothing else.
LEMMA SeedKeeps ==
  ASSUME DInv, NEW k \in Messages, SeedBaseline(k)
  PROVE  DInv'
<1>1. Typed'
  BY DEF DInv, Typed, SeedBaseline
<1>2. Grows
  <2>1. /\ version' = [version EXCEPT ![k].known = TRUE] /\ UNCHANGED job
        /\ version \in [Messages -> [known : BOOLEAN, pts : 0..LastPts]]
    BY DEF SeedBaseline, DInv, Typed
  <2>2. \A l \in Messages : version'[l].pts = version[l].pts
                            /\ (version[l].known => version'[l].known)
    BY <2>1
  <2> QED  BY <2>1, <2>2, VersionsTyped DEF DInv, Grows
<1> QED  BY <1>1, <1>2, NoTask DEF SeedBaseline

\* claim_due takes open rows and leases that ran out, never a finished row.
LEMMA ClaimDueKeeps ==
  ASSUME DInv, ClaimDue
  PROVE  DInv'
<1>1. /\ row' \in [Updates -> Row]
      /\ \A u \in Updates : row'[u].state \in {"accounted", "dropped"} =>
                              row[u].state \in {"accounted", "dropped"}
  BY RowForms DEF DInv, Typed, ClaimDue
<1>2. Typed'
  BY <1>1 DEF DInv, Typed, ClaimDue, Claimable
<1>3. Grows
  BY SameStays DEF DInv, ClaimDue
<1> QED  BY <1>1, <1>2, <1>3, NoTask DEF ClaimDue

\* A row comes due, or its lease runs out.
LEMMA TimeKeeps ==
  ASSUME DInv, NEW u \in Updates, Time(u)
  PROVE  DInv'
<1>1. row[u] \in Row
  BY DEF DInv, Typed
<1>2. /\ row' \in [Updates -> Row]
      /\ \A v \in Updates : row'[v].state \in {"accounted", "dropped"} =>
                              row[v].state \in {"accounted", "dropped"}
  <2>1. CASE BecomesDue(u)
    <3>1. [row[u] EXCEPT !.due = TRUE] \in Row /\ row' = [row EXCEPT ![u].due = TRUE]
      BY <1>1, <2>1, RowForms DEF BecomesDue
    <3>2. [row[u] EXCEPT !.due = TRUE].state = row[u].state
      BY <1>1 DEF Row
    <3> QED  BY <3>1, <3>2 DEF DInv, Typed
  <2>2. CASE LeaseLapses(u)
    <3>1. [row[u] EXCEPT !.lapsed = TRUE] \in Row /\ row' = [row EXCEPT ![u].lapsed = TRUE]
      BY <1>1, <2>2, RowForms DEF LeaseLapses
    <3>2. [row[u] EXCEPT !.lapsed = TRUE].state = row[u].state
      BY <1>1 DEF Row
    <3> QED  BY <3>1, <3>2 DEF DInv, Typed
  <2> QED  BY <2>1, <2>2 DEF Time
<1>3. UNCHANGED <<version, job, worker, task, batch, faults>>
  BY DEF Time, BecomesDue, LeaseLapses
<1>4. Typed' /\ Grows
  BY <1>2, <1>3, SameStays DEF DInv, Typed
<1> QED  BY <1>2, <1>3, <1>4, NoTask

\* The worker settles jobs or gives them back, and never forgets one.
LEMMA WorkingKeeps ==
  ASSUME DInv, Working
  PROVE  DInv'
<1> USE DEF DInv, Typed
<1>1. /\ job' \in [Effects -> {"none", "pending", "inflight", "done"}]
      /\ \A d \in Effects : job[d] # "none" => job'[d] # "none"
      /\ faults' \in Nat
      /\ worker' \in [pc : {"idle"}, job : {NoJob}]
                       \cup [pc : {"resolving", "requesting"}, job : Effects]
  <2>1. CASE WorkerResolves
    <3>1. worker.job \in Effects
      BY <2>1 DEF WorkerResolves
    <3> QED  BY <2>1, <3>1 DEF WorkerResolves
  <2>2. CASE WorkerRequests
    <3>1. worker.job \in Effects
      BY <2>2 DEF WorkerRequests
    <3> QED  BY <2>2, <3>1, RequestedTyped DEF WorkerRequests
  <2>3. ASSUME NEW e \in Effects, WorkerClaims(e)
        PROVE  /\ job' \in [Effects -> {"none", "pending", "inflight", "done"}]
               /\ \A d \in Effects : job[d] # "none" => job'[d] # "none"
               /\ faults' \in Nat
               /\ worker' \in [pc : {"idle"}, job : {NoJob}]
                                \cup [pc : {"resolving", "requesting"}, job : Effects]
    BY <2>3 DEF WorkerClaims
  <2> QED  BY <2>1, <2>2, <2>3 DEF Working
<1>2. UNCHANGED <<version, row, task, batch>>
  BY DEF Working, WorkerResolves, WorkerRequests, WorkerClaims
<1>3. Typed' /\ Grows
  BY <1>1, <1>2, VersionsTyped DEF Grows
<1> QED  BY <1>2, <1>3, NoTask

\* A crash takes the memory: the jobs, versions and rows are as they were.
LEMMA CrashKeeps ==
  ASSUME DInv, Crash
  PROVE  DInv'
<1>1. /\ task' = [t \in Tasks |-> IdleTask] /\ batch' = {}
      /\ worker' = [pc |-> "idle", job |-> NoJob] /\ faults' = faults + 1
      /\ job' = [e \in Effects |-> IF job[e] = "inflight" THEN "pending" ELSE job[e]]
      /\ UNCHANGED <<version, row>>
  BY DEF Crash, Fault
<1>2. IdleTask \in [pc : Pcs, on : 0..LastPts, todo : Seq(Kinds)]
  BY Constants DEF IdleTask, Pcs
<1>3. Typed'
  BY <1>1, <1>2 DEF DInv, Typed
<1>4. Grows
  <2>1. \A e \in Effects : job[e] # "none" => job'[e] # "none"
    BY <1>1
  <2> QED  BY <1>1, <2>1, VersionsTyped DEF DInv, Grows
<1>5. \A t \in Tasks : Sound(t)'
  BY <1>1 DEF Sound, IdleTask
<1>6. AccountedIsDurable'
  <2>1. \A u \in Updates : Durable(u) => Durable(u)'
    BY <1>3, <1>4, DurableStays DEF DInv
  <2> QED  BY <1>1, <2>1 DEF DInv, AccountedIsDurable, Durable
<1> QED  BY <1>3, <1>5, <1>6 DEF DInv

-----------------------------------------------------------------------------
(* Steps of a task *)

\* A task that begins an update is sound: a deletion is still to be put on the queue.
LEMMA BeginKeeps ==
  ASSUME DInv, NEW t \in Tasks, NEW u \in Updates, Begin(t, u), UNCHANGED <<version, job, worker>>,
         batch' \subseteq Updates, faults' \in Nat, row' \in [Updates -> Row],
         \A v \in Updates : row'[v].state \in {"accounted", "dropped"} =>
                              row[v].state \in {"accounted", "dropped"}
  PROVE  DInv'
<1>0. <<"delete">> \in Seq(Kinds) /\ << >> \in Seq(Kinds)
  OBVIOUS
<1>1. task' \in [Tasks -> [pc : Pcs, on : 0..LastPts, todo : Seq(Kinds)]]
  <2>1. [pc |-> "deriving", on |-> u, todo |-> <<"delete">>]
          \in [pc : Pcs, on : 0..LastPts, todo : Seq(Kinds)]
    BY <1>0, Constants DEF Pcs
  <2>2. [pc |-> "entering", on |-> u, todo |-> << >>]
          \in [pc : Pcs, on : 0..LastPts, todo : Seq(Kinds)]
    BY <1>0, Constants DEF Pcs
  <2> QED  BY <2>1, <2>2 DEF DInv, Typed, Begin
<1>2. Typed' /\ Grows
  BY <1>1, SameStays DEF DInv, Typed
<1>3. Sound(t)' /\ \A s \in Tasks : s # t => task'[s] = task[s]
  BY DEF DInv, Typed, Begin, Sound
<1> QED  BY <1>2, <1>3, OneTask

\* Writing an update down opens its row and nothing else.
LEMMA RememberKeeps ==
  ASSUME DInv, NEW u \in Updates, Remember(u)
  PROVE  DInv'
<1>1. /\ row' \in [Updates -> Row]
      /\ \A v \in Updates : row'[v].state \in {"accounted", "dropped"} =>
                              row[v].state \in {"accounted", "dropped"}
  <2>1. row' = [row EXCEPT ![u] = IF @.state \in {"none", "dropped"} THEN Open(TRUE) ELSE @]
    BY DEF Remember
  <2>2. Open(TRUE) \in Row /\ Open(TRUE).state = "open"
    BY RowForms
  <2> QED  BY <2>1, <2>2 DEF DInv, Typed
<1>2. faults' \in Nat /\ batch' \subseteq Updates
  BY DEF DInv, Typed, Remember, Fault
<1> QED  BY <1>1, <1>2, BeginKeeps, Constants DEF Remember

\* The drain takes up the next update of its batch.
LEMMA DrainNextKeeps ==
  ASSUME DInv, NEW u \in Updates, DrainNext(u)
  PROVE  DInv'
<1>1. /\ row' = row /\ faults' = faults /\ UNCHANGED <<version, job, worker>>
      /\ batch' \subseteq Updates /\ Begin(Drain, u)
  BY DEF DInv, Typed, DrainNext, durable
<1> QED  BY <1>1, BeginKeeps, Constants DEF DInv, Typed

\* Asking for the lock and being given it decide nothing.
LEMMA LockingKeeps ==
  ASSUME DInv, NEW t \in Tasks, AskForLock(t) \/ LockGranted(t)
  PROVE  DInv'
<1>0. UNCHANGED <<version, row, job, worker, batch, faults>>
  BY DEF AskForLock, LockGranted, durable
<1>1. CASE AskForLock(t)
  <2>1. Goes(t, "locked") /\ task[t].pc = "entering" /\ "locked" \in Pcs
    BY <1>1 DEF AskForLock, Pcs
  <2>2. task' \in [Tasks -> [pc : Pcs, on : 0..LastPts, todo : Seq(Kinds)]]
    BY <2>1, TurnTyped DEF DInv
  <2>3. Typed' /\ Grows
    BY <1>0, <2>2, SameStays DEF DInv, Typed
  <2>4. Sound(t)' /\ \A s \in Tasks : s # t => task'[s] = task[s]
    BY <2>1 DEF DInv, Typed, Goes, Sound
  <2> QED  BY <1>0, <2>3, <2>4, OneTask
<1>2. CASE LockGranted(t)
  <2>1. UNCHANGED task
    BY <1>2 DEF LockGranted
  <2>2. Typed' /\ Grows
    BY <1>0, <2>1, SameStays DEF DInv, Typed
  <2> QED  BY <1>0, <2>1, <2>2, NoTask
<1> QED  BY <1>1, <1>2

\* A reading ends with an update the version has reached, or with a list of effects.
LEMMA ReadStateKeeps ==
  ASSUME DInv, NEW t \in Tasks, ReadState(t)
  PROVE  DInv'
<1>0. UNCHANGED <<version, row, job, worker, batch, faults>> /\ task[t].pc = "locked"
  BY DEF ReadState, durable
<1>1. PICK u \in Updates : u = task[t].on /\ Update[u].family # "delete"
  BY <1>0 DEF DInv, Sound
<1> DEFINE v == version[Of(u)]
<1>2. CASE v.known /\ u <= v.pts /\ Goes(t, "accounting")
  <2>1. task' \in [Tasks -> [pc : Pcs, on : 0..LastPts, todo : Seq(Kinds)]]
    BY <1>2, TurnTyped DEF DInv, Pcs
  <2>2. Typed' /\ Grows
    BY <1>0, <2>1, SameStays DEF DInv, Typed
  <2>3. version[Of(u)].pts \in Nat /\ u \in Nat
    <3>1. Of(u) \in Messages /\ u \in Nat
      BY Constants
    <3> QED  BY <3>1, VersionsTyped DEF DInv
  <2>4. Durable(u)
    BY <1>1, <1>2, <2>3 DEF Durable
  <2>5. Durable(u)'
    BY <1>1, <2>2, <2>4, DurableStays DEF DInv
  <2>6. task'[t].pc = "accounting" /\ task'[t].on = u
        /\ \A s \in Tasks : s # t => task'[s] = task[s]
    BY <1>1, <1>2 DEF DInv, Typed, Goes
  <2>7. Sound(t)'
    BY <1>1, <2>5, <2>6 DEF Sound, Durable
  <2> QED  BY <1>0, <2>2, <2>6, <2>7, OneTask
<1>3. CASE task' = [task EXCEPT ![t].pc = "deriving", ![t].todo = Derived(u, v)]
  <2>1. Derived(u, v) \in Seq(Kinds) /\ "deriving" \in Pcs
    BY DerivedTyped DEF Pcs
  <2>2. task' \in [Tasks -> [pc : Pcs, on : 0..LastPts, todo : Seq(Kinds)]]
    BY <1>3, <2>1 DEF DInv, Typed
  <2>3. Typed' /\ Grows
    BY <1>0, <2>2, SameStays DEF DInv, Typed
  <2>4. Sound(t)' /\ \A s \in Tasks : s # t => task'[s] = task[s]
    BY <1>1, <1>3 DEF DInv, Typed, Sound
  <2> QED  BY <1>0, <2>3, <2>4, OneTask
<1> QED  BY <1>1, <1>2, <1>3 DEF ReadState

\* Handing an effect to the queue: a deletion is on it from here on.
LEMMA SubmitKeeps ==
  ASSUME DInv, NEW t \in Tasks, Submit(t)
  PROVE  DInv'
<1> DEFINE e == InHand(t)
<1>1. /\ UNCHANGED <<version, row, worker, batch, faults>>
      /\ task[t].pc = "deriving" /\ task[t].todo # << >>
  BY DEF Submit
<1>2. e \in Effects /\ Tail(task[t].todo) \in Seq(Kinds)
      /\ (Head(task[t].todo) = "delete" => e = <<"delete", task[t].on>>)
  BY <1>1, InHandTyped DEF DInv
<1>3. PICK u \in Updates : u = task[t].on
  BY <1>1 DEF DInv, Sound
<1> HIDE DEF e
<1>4. \/ job[e] = "none" /\ job' = [job EXCEPT ![e] = "pending"] /\ Goes(t, "attempting")
      \/ job[e] # "none" /\ UNCHANGED job /\ Turns(t, "deriving")
  BY DEF Submit, e
<1>5. /\ task' \in [Tasks -> [pc : Pcs, on : 0..LastPts, todo : Seq(Kinds)]]
      /\ \A s \in Tasks : s # t => task'[s] = task[s]
  <2>1. "attempting" \in Pcs /\ "deriving" \in Pcs
    BY DEF Pcs
  <2>2. task' \in [Tasks -> [pc : Pcs, on : 0..LastPts, todo : Seq(Kinds)]]
    BY <1>2, <1>4, <2>1, TurnTyped DEF DInv
  <2> QED  BY <1>4, <2>2 DEF DInv, Typed, Goes, Turns
<1>6. /\ job' \in [Effects -> {"none", "pending", "inflight", "done"}]
      /\ \A d \in Effects : job[d] # "none" => job'[d] # "none"
      /\ job'[e] # "none"
  BY <1>2, <1>4 DEF DInv, Typed
<1>7. Typed' /\ Grows
  <2>1. \A k \in Messages : version[k].pts \in Nat
    BY VersionsTyped DEF DInv
  <2> QED  BY <1>1, <1>5, <1>6, <2>1 DEF DInv, Typed, Grows
<1>8. Update[u].family = "delete" => Durable(u)'
  <2> SUFFICES ASSUME Update[u].family = "delete" PROVE Durable(u)'
    OBVIOUS
  <2>1. Durable(u) \/ task[t].todo = <<"delete">>
    BY <1>1, <1>3 DEF DInv, Sound, Durable
  <2>2. CASE Durable(u)
    BY <1>7, <2>2, DurableStays DEF DInv
  <2>3. CASE task[t].todo = <<"delete">>
    BY <1>2, <1>3, <1>6, <2>3 DEF Durable
  <2> QED  BY <2>1, <2>2, <2>3
<1>9. task'[t].on = u /\ task'[t].pc \in {"attempting", "deriving"}
      /\ (task'[t].pc = "attempting" => task'[t].todo # << >>)
  BY <1>1, <1>3, <1>4 DEF DInv, Typed, Goes, Turns
<1>10. Sound(t)'
  BY <1>8, <1>9 DEF Sound, Durable
<1> QED  BY <1>1, <1>5, <1>7, <1>10, OneTask

\* A task at an effect it has handed over: the jobs that exist stay, and the deletion is
\* among them.
LEMMA CarryingKeeps ==
  ASSUME DInv, NEW t \in Tasks, NEW pc \in {"requesting", "deriving"},
         task[t].pc \in {"attempting", "requesting"},
         pc = "requesting" => Goes(t, pc), pc = "deriving" => Turns(t, pc),
         UNCHANGED <<version, row, worker, batch>>, faults' \in Nat,
         job' \in [Effects -> {"none", "pending", "inflight", "done"}],
         \A d \in Effects : job[d] # "none" => job'[d] # "none"
  PROVE  DInv'
<1>1. PICK u \in Updates : u = task[t].on
  BY DEF DInv, Sound
<1>2. task[t].todo # << >> /\ Tail(task[t].todo) \in Seq(Kinds)
  BY InHandTyped DEF DInv, Sound
<1>3. /\ task' \in [Tasks -> [pc : Pcs, on : 0..LastPts, todo : Seq(Kinds)]]
      /\ \A s \in Tasks : s # t => task'[s] = task[s]
  <2>1. task' \in [Tasks -> [pc : Pcs, on : 0..LastPts, todo : Seq(Kinds)]]
    BY <1>2, TurnTyped DEF DInv, Pcs
  <2> QED  BY <2>1 DEF DInv, Typed, Goes, Turns
<1>4. Typed' /\ Grows
  <2>1. \A k \in Messages : version[k].pts \in Nat
    BY VersionsTyped DEF DInv
  <2> QED  BY <1>3, <2>1 DEF DInv, Typed, Grows
<1>5. Update[u].family = "delete" => Durable(u)'
  <2>1. Update[u].family = "delete" => Durable(u)
    BY <1>1 DEF DInv, Sound, Durable
  <2> QED  BY <1>4, <2>1, DurableStays DEF DInv
<1>6. task'[t].on = u /\ task'[t].pc = pc /\ (pc = "requesting" => task'[t].todo # << >>)
  BY <1>1, <1>2 DEF DInv, Typed, Goes, Turns
<1>7. Sound(t)'
  BY <1>5, <1>6 DEF Sound, Durable
<1> QED  BY <1>3, <1>4, <1>7, OneTask

\* The attempt finds the job taken, claims it, or settles it.
LEMMA AttemptKeeps ==
  ASSUME DInv, NEW t \in Tasks, Attempt(t)
  PROVE  DInv'
<1> DEFINE e == InHand(t)
<1>1. task[t].pc = "attempting" /\ faults' \in Nat /\ UNCHANGED <<version, row, worker, batch>>
  BY DEF Attempt, DInv, Typed
<1>2. e \in Effects
  BY <1>1, InHandTyped DEF DInv, Sound
<1> HIDE DEF e
<1>3. \/ Turns(t, "deriving") /\ UNCHANGED job
      \/ job[e] = "pending" /\ job' = [job EXCEPT ![e] = "inflight"] /\ Goes(t, "requesting")
      \/ job[e] = "pending" /\ job' = [job EXCEPT ![e] = "done"] /\ Turns(t, "deriving")
  BY DEF Attempt, e
<1>4. /\ job' \in [Effects -> {"none", "pending", "inflight", "done"}]
      /\ \A d \in Effects : job[d] # "none" => job'[d] # "none"
  BY <1>2, <1>3 DEF DInv, Typed
<1>5. CASE Goes(t, "requesting")
  BY <1>1, <1>4, <1>5, CarryingKeeps
<1>6. CASE Turns(t, "deriving")
  BY <1>1, <1>4, <1>6, CarryingKeeps
<1> QED  BY <1>3, <1>5, <1>6

\* The request of a task settles the job or gives it back.
LEMMA RequestKeeps ==
  ASSUME DInv, NEW t \in Tasks, Request(t)
  PROVE  DInv'
<1>1. /\ task[t].pc = "requesting" /\ Requested(InHand(t)) /\ Turns(t, "deriving")
      /\ UNCHANGED <<version, row, worker, batch>>
  BY DEF Request
<1>2. InHand(t) \in Effects
  BY <1>1, InHandTyped DEF DInv, Sound
<1> QED  BY <1>1, <1>2, RequestedTyped, CarryingKeeps DEF DInv

\* The version moves forward to the update, or was there already.
LEMMA AdvanceKeeps ==
  ASSUME DInv, NEW t \in Tasks, Advance(t)
  PROVE  DInv'
<1>1. /\ task[t].pc = "deriving" /\ task[t].todo = << >> /\ Goes(t, "accounting")
      /\ UNCHANGED <<row, batch, job, worker, faults>>
  BY DEF Advance
<1>2. PICK u \in Updates : u = task[t].on
  BY <1>1 DEF DInv, Sound
<1>3. Of(u) \in Messages /\ u \in Nat /\ LastPts \in Nat
      /\ \A k \in Messages : /\ version[k] \in [known : BOOLEAN, pts : 0..LastPts]
                             /\ version[k].pts \in Nat
  <2>1. Of(u) \in Messages /\ u \in Nat /\ LastPts \in Nat
    BY Constants
  <2> QED  BY <2>1, VersionsTyped DEF DInv
<1>4. /\ task' \in [Tasks -> [pc : Pcs, on : 0..LastPts, todo : Seq(Kinds)]]
      /\ task'[t].on = u /\ task'[t].pc = "accounting"
      /\ \A s \in Tasks : s # t => task'[s] = task[s]
  <2>1. task' \in [Tasks -> [pc : Pcs, on : 0..LastPts, todo : Seq(Kinds)]]
    BY <1>1, TurnTyped DEF DInv, Pcs
  <2> QED  BY <1>1, <1>2, <2>1 DEF DInv, Typed, Goes
<1>5. CASE Update[u].family = "delete" /\ UNCHANGED version
  <2>1. Typed' /\ Grows
    BY <1>1, <1>4, <1>5, SameStays DEF DInv, Typed
  <2>2. Durable(u)
    BY <1>1, <1>2, <1>5 DEF DInv, Sound, Durable
  <2>3. Durable(u)'
    BY <2>1, <2>2, DurableStays DEF DInv
  <2>4. Sound(t)'
    BY <1>2, <1>4, <2>3 DEF Sound, Durable
  <2> QED  BY <1>1, <1>4, <2>1, <2>4, OneTask
<1>6. CASE /\ Update[u].family = "snapshot"
           /\ version' = [version EXCEPT ![Of(u)] = Advanced(@, u)]
  <2> DEFINE v == version[Of(u)]
             w == Advanced(version[Of(u)], u)
  <2>1. /\ w \in [known : BOOLEAN, pts : 0..LastPts] /\ w.pts \in Nat
        /\ w.known /\ w.pts >= u /\ (v.known => w.pts >= v.pts)
    BY <1>3 DEF Advanced
  <2> HIDE DEF w
  <2>2. version' = [version EXCEPT ![Of(u)] = w]
    BY <1>6 DEF w
  <2>3. version' \in [Messages -> [known : BOOLEAN, pts : 0..LastPts]] /\ version'[Of(u)] = w
    BY <1>3, <2>1, <2>2 DEF DInv, Typed
  <2>4. Grows
    <3>1. ASSUME NEW k \in Messages, version[k].known
          PROVE  version'[k].known /\ version'[k].pts >= version[k].pts
      <4>1. CASE k = Of(u)
        BY <2>1, <2>3, <3>1, <4>1
      <4>2. CASE k # Of(u)
        BY <1>3, <2>2, <3>1, <4>2 DEF DInv, Typed
      <4> QED  BY <4>1, <4>2
    <3> QED  BY <1>1, <3>1 DEF Grows
  <2>5. Typed'
    BY <1>1, <1>4, <2>3 DEF DInv, Typed
  <2>6. Durable(u)'
    BY <1>6, <2>1, <2>3 DEF Durable
  <2>7. Sound(t)'
    BY <1>2, <1>4, <2>6 DEF Sound, Durable
  <2> QED  BY <1>1, <1>4, <2>4, <2>5, <2>7, OneTask
<1> QED  BY <1>2, <1>5, <1>6 DEF Advance

\* A row is finished by a task whose update is durable, and dropped when it was finished.
LEMMA FinishingKeeps ==
  ASSUME DInv, NEW t \in Tasks, Account(t) \/ Drop(t)
  PROVE  DInv'
<1>1. /\ task[t].pc \in {"accounting", "dropping"}
      /\ UNCHANGED <<version, batch, job, worker, faults>>
      /\ Goes(t, "dropping") \/ Ends(t)
  BY DEF Account, Drop
<1>2. PICK u \in Updates : u = task[t].on
  BY <1>1 DEF DInv, Sound
<1>3. Durable(u)
  BY <1>1, <1>2 DEF DInv, Sound, Durable
<1>4. /\ row' \in [Updates -> Row]
      /\ \A v \in Updates : row'[v].state \in {"accounted", "dropped"} =>
                              row[v].state \in {"accounted", "dropped"} \/ Durable(v)
  <2>1. PICK r \in Row : row' = [row EXCEPT ![u] = r]
    <3>1. CASE Account(t)
      <4>1. row[u] \in Row /\ [NoRow EXCEPT !.state = "accounted"] \in Row
        BY RowForms DEF DInv, Typed
      <4> QED  BY <1>2, <3>1, <4>1 DEF Account
    <3>2. CASE Drop(t)
      <4>1. row[u] \in Row /\ [NoRow EXCEPT !.state = "dropped"] \in Row
        BY RowForms DEF DInv, Typed
      <4> QED  BY <1>2, <3>2, <4>1 DEF Drop
    <3> QED  BY <3>1, <3>2
  <2>2. \A v \in Updates : v # u => row'[v] = row[v]
    BY <2>1 DEF DInv, Typed
  <2>3. row' \in [Updates -> Row]
    BY <2>1 DEF DInv, Typed
  <2> QED  BY <1>3, <2>2, <2>3
<1>5. /\ task' \in [Tasks -> [pc : Pcs, on : 0..LastPts, todo : Seq(Kinds)]]
      /\ \A s \in Tasks : s # t => task'[s] = task[s]
      /\ \/ task'[t].pc = "idle"
         \/ task'[t].pc = "dropping" /\ task'[t].on = u
  <2>1. task' \in [Tasks -> [pc : Pcs, on : 0..LastPts, todo : Seq(Kinds)]]
    BY <1>1, TurnTyped DEF DInv, Pcs
  <2>2. CASE Goes(t, "dropping")
    BY <1>2, <2>1, <2>2 DEF DInv, Typed, Goes
  <2>3. CASE Ends(t)
    <3>1. task'[t].pc = "idle" /\ \A s \in Tasks : s # t => task'[s] = task[s]
      BY <2>3 DEF DInv, Typed, Ends, IdleTask
    <3> QED  BY <2>1, <3>1
  <2> QED  BY <1>1, <2>2, <2>3
<1>6. Typed' /\ Grows
  BY <1>1, <1>4, <1>5, SameStays DEF DInv, Typed
<1>7. Durable(u)'
  BY <1>3, <1>6, DurableStays DEF DInv
<1>8. Sound(t)'
  BY <1>5, <1>7 DEF Sound, Durable
<1> QED  BY <1>4, <1>5, <1>6, <1>8, OneTask

\* An exception opens the row again, or leaves it claimed, and finishes none.
LEMMA RaisesKeeps ==
  ASSUME DInv, NEW t \in Tasks, Raises(t)
  PROVE  DInv'
<1>1. /\ UNCHANGED <<version, job, worker>> /\ Ends(t)
      /\ batch' \in {batch, {}} /\ faults' = faults + 1
      /\ row' = [row EXCEPT ![task[t].on] = Reopened(@)] \/ UNCHANGED row
  BY DEF Raises, Fault
<1>2. /\ row' \in [Updates -> Row]
      /\ \A v \in Updates : row'[v].state \in {"accounted", "dropped"} =>
                              row[v].state \in {"accounted", "dropped"}
  <2>1. \A r \in Row : /\ Reopened(r) \in Row
                       /\ Reopened(r).state \in {"accounted", "dropped"} =>
                            r.state \in {"accounted", "dropped"}
    BY RowForms DEF Reopened
  <2>2. CASE row' = [row EXCEPT ![task[t].on] = Reopened(@)]
    <3>1. PICK u \in Updates : u = task[t].on
      BY DEF Raises, DInv, Sound
    <3>2. row' = [row EXCEPT ![u] = Reopened(row[u])] /\ row[u] \in Row
      BY <2>2, <3>1 DEF DInv, Typed
    <3>3. \A v \in Updates : row'[v] = IF v = u THEN Reopened(row[u]) ELSE row[v]
      BY <3>2 DEF DInv, Typed
    <3> QED  BY <2>1, <3>2, <3>3 DEF DInv, Typed
  <2>3. CASE UNCHANGED row
    BY <2>3 DEF DInv, Typed
  <2> QED  BY <1>1, <2>2, <2>3
<1>3. /\ task' \in [Tasks -> [pc : Pcs, on : 0..LastPts, todo : Seq(Kinds)]]
      /\ \A s \in Tasks : s # t => task'[s] = task[s]
      /\ task'[t].pc = "idle"
  <2>1. task' \in [Tasks -> [pc : Pcs, on : 0..LastPts, todo : Seq(Kinds)]]
    BY <1>1, TurnTyped DEF DInv, Pcs
  <2> QED  BY <1>1, <2>1 DEF DInv, Typed, Ends, IdleTask
<1>4. Typed' /\ Grows
  <2>1. faults' \in Nat /\ batch' \subseteq Updates
    BY <1>1 DEF DInv, Typed
  <2> QED  BY <1>1, <1>2, <1>3, <2>1, SameStays DEF DInv, Typed
<1>5. Sound(t)'
  BY <1>3 DEF Sound
<1> QED  BY <1>2, <1>3, <1>4, <1>5, OneTask

-----------------------------------------------------------------------------
(* The specification *)

\* Nothing is written down at first.
LEMMA StartsDurable == Init => DInv
<1> SUFFICES ASSUME Init PROVE DInv
  OBVIOUS
<1>1. IdleTask \in [pc : Pcs, on : 0..LastPts, todo : Seq(Kinds)] /\ 0 \in 0..LastPts
  BY Constants DEF IdleTask, Pcs
<1>2. Typed
  BY <1>1, RowForms DEF Init, Typed
<1>3. \A t \in Tasks : Sound(t)
  BY DEF Init, Sound, IdleTask
<1>4. AccountedIsDurable
  BY DEF Init, AccountedIsDurable, NoRow
<1> QED  BY <1>2, <1>3, <1>4 DEF DInv

\* Every step keeps what is durable, and finishes no row before its time.
LEMMA KeepsDurable == DInv /\ [Next]_vars => DInv'
<1> SUFFICES ASSUME DInv, [Next]_vars PROVE DInv'
  OBVIOUS
<1>1. ASSUME NEW k \in Messages, SeedBaseline(k) PROVE DInv'
  BY <1>1, SeedKeeps
<1>2. ASSUME NEW u \in Updates, Remember(u) \/ Time(u) PROVE DInv'
  BY <1>2, RememberKeeps, TimeKeeps
<1>3. ASSUME NEW t \in Tasks, Steps(t) PROVE DInv'
  BY <1>3, LockingKeeps, ReadStateKeeps, SubmitKeeps, AttemptKeeps, RequestKeeps,
     AdvanceKeeps, FinishingKeeps DEF Steps
<1>4. ASSUME NEW t \in Tasks, Raises(t) PROVE DInv'
  BY <1>4, RaisesKeeps
<1>5. CASE Draining
  BY <1>5, ClaimDueKeeps, DrainNextKeeps DEF Draining
<1>6. CASE Working \/ Crash
  BY <1>6, WorkingKeeps, CrashKeeps
<1>7. CASE UNCHANGED vars
  <2>1. UNCHANGED <<version, row, job, task, batch, worker, faults>>
    BY <1>7 DEF vars, durable
  <2>2. Typed' /\ Grows
    BY <2>1, SameStays DEF DInv, Typed
  <2> QED  BY <2>1, <2>2, NoTask
<1> QED  BY <1>1, <1>2, <1>3, <1>4, <1>5, <1>6, <1>7 DEF Next

\* For any updates of any messages, read by any number of handlers and the drain at once:
\* a row leaves the inbox only with its effects durable, through every crash and exception
\* (routing/owner_updates.py, _settle and account).
THEOREM NothingAccountedUndurable == Spec => []AccountedIsDurable
<1>1. DInv => AccountedIsDurable
  BY DEF DInv
<1> QED  BY <1>1, StartsDurable, KeepsDurable, PTL DEF Spec

\* Every variable keeps its type, for every value of the constants.
THEOREM TypeCorrect == Spec => []TypeOK
<1>1. DInv => TypeOK
  <2> SUFFICES ASSUME DInv PROVE TypeOK
    OBVIOUS
  <2>1. \A t \in Tasks : task[t] \in [pc : Pcs, on : 0..LastPts, todo : Seq(Kinds)]
    BY DEF DInv, Typed
  <2>2. \A t \in Tasks : task[t].on \in 0..LastPts /\ task[t].todo \in Seq(Kinds)
    BY <2>1
  <2> QED  BY <2>2 DEF DInv, Typed, TypeOK
<1> QED  BY <1>1, StartsDurable, KeepsDurable, PTL DEF Spec

-----------------------------------------------------------------------------
(* The lock, used by the handlers *)

\* A step of the inbox is a step of the lock or leaves it alone, except for a crash, which
\* starts it anew; asking for it needs an update to ask it for.
LEMMA LockStep == DInv /\ [Next]_vars => [LockNext]_lockVars \/ LocksInit'
<1> SUFFICES ASSUME DInv, [Next]_vars PROVE [LockNext]_lockVars \/ LocksInit'
  OBVIOUS
<1>1. ASSUME NEW t \in Tasks, Steps(t) \/ Raises(t) PROVE [LockNext]_lockVars
  <2>1. CASE AskForLock(t)
    <3>1. task[t].on \in Updates
      BY <2>1 DEF AskForLock, DInv, Sound
    <3>2. Of(task[t].on) \in Keys
      BY <3>1, Constants
    <3> QED  BY <2>1, <3>2 DEF AskForLock, LockNext
  <2>2. CASE LockGranted(t) \/ ReadState(t) \/ Advance(t) \/ Raises(t)
    <3>1. Granted(t) \/ Leave(t) \/ UNCHANGED lockVars
      BY <2>2 DEF LockGranted, ReadState, Advance, Raises
    <3> QED  BY <3>1 DEF LockNext
  <2>3. CASE Submit(t) \/ Attempt(t) \/ Request(t) \/ Account(t) \/ Drop(t)
    BY <2>3 DEF Submit, Attempt, Request, Account, Drop
  <2> QED  BY <1>1, <2>1, <2>2, <2>3 DEF Steps
<1>2. CASE Crash
  BY <1>2 DEF Crash, LocksInit
<1>3. ASSUME NEW k \in Messages, SeedBaseline(k) PROVE UNCHANGED lockVars
  BY <1>3 DEF SeedBaseline
<1>4. ASSUME NEW u \in Updates, Remember(u) \/ Time(u) PROVE UNCHANGED lockVars
  BY <1>4 DEF Remember, Time, BecomesDue, LeaseLapses
<1>5. CASE Draining \/ Working
  BY <1>5 DEF Draining, Working, ClaimDue, DrainNext, WorkerClaims, WorkerResolves,
              WorkerRequests
<1>6. CASE UNCHANGED vars
  BY <1>6 DEF vars
<1> QED  BY <1>1, <1>2, <1>3, <1>4, <1>5, <1>6 DEF Next

\* Every step keeps the lock consistent.
LEMMA KeepsLock == DInv /\ LInv /\ [Next]_vars => LInv'
<1>1. LInv /\ LocksInit' => LInv'
  BY KeyedLockAssumption DEF LocksInit, LInv, LocksTyped, Filed, Counted, InTurn, InUse
<1> QED  BY <1>1, LockStep, StepKeeps

\* One handler or drain at a time is inside for a message, across exceptions and crashes
\* (routing/owner_updates.py, _apply).
THEOREM OneReaderPerMessage == Spec => []MutualExclusion
<1>1. Init => DInv /\ LInv
  BY StartsDurable, Initially DEF Init
<1>2. LInv => MutualExclusion
  BY InvariantImplies
<1> QED  BY <1>1, <1>2, KeepsDurable, KeepsLock, PTL DEF Spec

-----------------------------------------------------------------------------
(* What is derived adds up.  A reader has its message to itself, so that what   *)
(* it found when it began is so until its version moves: every change handed    *)
(* over, or still on its list, is one between that version and its update.      *)

Visible == {"edit", "reaction"}
Value(k, u) == IF k = "edit" THEN Text(u) ELSE Reaction(u)
Has(k, u) == job[<<k, u>>] # "none"

Inside == {"deriving", "attempting", "requesting"}
Member(k, list) == \E i \in 1..Len(list) : list[i] = k
Orders == {<< >>, <<"edit">>, <<"reaction">>, <<"edit", "reaction">>}

\* Who reads a message to derive from a snapshot of it, and who is at a job.
Reads(t) == task[t].pc \in Inside /\ Update[task[t].on].family = "snapshot"
ReadsFor(t, m) == Reads(t) /\ Of(task[t].on) = m
Awaits(t, k) == Member(k, task[t].todo)
Carries(t) == task[t].pc \in {"attempting", "requesting"}

\* A reader is in the lock of its message, and its list is in the order of the code.
Placed(t) ==
    /\ task[t].pc = "locked" => asked[t] = Of(task[t].on)
    /\ Reads(t) => asked[t] = Of(task[t].on) /\ Holds(t) /\ task[t].todo \in Orders
    /\ task[t].pc \in Inside /\ ~Reads(t) => task[t].todo \in {<< >>, <<"delete">>}

\* What a reader found is so until its version moves.
At(t, k) == Carries(t) /\ Head(task[t].todo) = k
Found(t, u) ==
    LET v == version[Of(u)] IN
    /\ ~v.known \/ u > v.pts
    /\ \A k \in Visible : At(t, k) => Has(k, u)
    /\ Of(u) \notin torn => \A k \in Visible :
         /\ Awaits(t, k) /\ ~At(t, k) => ~Has(k, u)
         /\ v.known => (Awaits(t, k) \/ Has(k, u) <=> Value(k, u) # Value(k, v.pts))
         /\ ~v.known => ~Awaits(t, k) /\ ~Has(k, u)
Derives(t) == \A u \in Updates : Reads(t) /\ task[t].on = u => Found(t, u)

\* A change on the queue is of a version reached, or of the reader at work.
Came == \A u \in Updates, k \in Visible : Has(k, u) /\ Of(u) \notin torn =>
          \/ version[Of(u)].known /\ u <= version[Of(u)].pts
          \/ \E t \in Tasks : Reads(t) /\ task[t].on = u

\* Messages are first seen at a version they reach, the unseen at none.
FirstSeen ==
    \A m \in Messages : /\ first[m] <= version[m].pts
                        /\ ~version[m].known => version[m].pts = 0

\* The newest change handed over up to the version stored.
Handed(k, m) == {u \in first[m]..version[m].pts \cap Updates : Of(u) = m /\ Has(k, u)}
Top(k, m, c) == \/ Handed(k, m) = {} /\ c = first[m]
                \/ c \in Handed(k, m) /\ \A u \in Handed(k, m) : u <= c
Sums == \A m \in Messages \ torn : version[m].known =>
          \A k \in Visible : \E c \in 0..LastPts : /\ Top(k, m, c)
                                                   /\ Value(k, c) = Value(k, version[m].pts)

\* What the worker has in hand is on the queue.
WorkerHas == worker.pc # "idle" => job[worker.job] # "none"

SumInv == /\ first \in [Messages -> 0..LastPts]
          /\ \A t \in Tasks : Placed(t) /\ Derives(t)
          /\ Came /\ FirstSeen /\ Sums

-----------------------------------------------------------------------------
(* Lists, tasks and readers *)

\* The lists a reader may have, from the first effect to the last.
LEMMA Lists ==
  /\ \A k : ~Member(k, << >>) /\ (Member(k, <<"edit">>) <=> k = "edit")
            /\ (Member(k, <<"reaction">>) <=> k = "reaction")
            /\ (Member(k, <<"edit", "reaction">>) <=> k \in Visible)
  /\ << >> \in Orders
  /\ \A list \in Orders : list # << >> =>
       /\ Head(list) \in Visible /\ Tail(list) \in Orders
       /\ Member(Head(list), list) /\ ~Member(Head(list), Tail(list))
       /\ \A k : k # Head(list) => (Member(k, Tail(list)) <=> Member(k, list))
<1>1. \A k : ~Member(k, << >>)
  BY DEF Member
<1>2. \A k : Member(k, <<"edit">>) <=> k = "edit"
  <2>1. Len(<<"edit">>) = 1 /\ <<"edit">>[1] = "edit"
    OBVIOUS
  <2> QED  BY <2>1 DEF Member
<1>3. \A k : Member(k, <<"reaction">>) <=> k = "reaction"
  <2>1. Len(<<"reaction">>) = 1 /\ <<"reaction">>[1] = "reaction"
    OBVIOUS
  <2> QED  BY <2>1 DEF Member
<1>4. \A k : Member(k, <<"edit", "reaction">>) <=> k \in Visible
  <2> DEFINE both == <<"edit", "reaction">>
  <2>1. Len(both) = 2 /\ both[1] = "edit" /\ both[2] = "reaction" /\ 1..2 = {1, 2}
    OBVIOUS
  <2> HIDE DEF both
  <2>2. \A k : Member(k, both) <=> k \in Visible
    BY <2>1 DEF Member, Visible
  <2> QED  BY <2>2 DEF both
<1>5. /\ Head(<<"edit">>) = "edit" /\ Tail(<<"edit">>) = << >>
      /\ Head(<<"reaction">>) = "reaction" /\ Tail(<<"reaction">>) = << >>
      /\ Head(<<"edit", "reaction">>) = "edit"
      /\ Tail(<<"edit", "reaction">>) = <<"reaction">>
  OBVIOUS
<1>6. << >> \in Orders /\ <<"reaction">> \in Orders /\ "edit" \in Visible /\ "reaction" \in Visible
  BY DEF Orders, Visible
<1>7. ASSUME NEW list \in Orders, list # << >>
      PROVE  /\ Head(list) \in Visible /\ Tail(list) \in Orders
             /\ Member(Head(list), list) /\ ~Member(Head(list), Tail(list))
             /\ \A k : k # Head(list) => (Member(k, Tail(list)) <=> Member(k, list))
  <2>1. list \in {<<"edit">>, <<"reaction">>, <<"edit", "reaction">>}
    BY <1>7 DEF Orders
  <2>2. CASE list = <<"edit">>
    BY <1>1, <1>2, <1>5, <1>6, <2>2
  <2>3. CASE list = <<"reaction">>
    BY <1>1, <1>3, <1>5, <1>6, <2>3
  <2>4. CASE list = <<"edit", "reaction">>
    BY <1>3, <1>4, <1>5, <1>6, <2>4 DEF Visible
  <2> QED  BY <2>1, <2>2, <2>3, <2>4
<1> QED  BY <1>1, <1>2, <1>3, <1>4, <1>6, <1>7

\* What a version makes of an update: the kinds in which the two differ, the edit first.
LEMMA ChangesAre ==
  ASSUME NEW u, NEW v
  PROVE  /\ Changes(u, v) \in Orders
         /\ \A k \in Visible : Member(k, Changes(u, v)) <=> Value(k, u) # Value(k, v)
<1>1. /\ << >> \o << >> = << >> /\ <<"edit">> \o << >> = <<"edit">>
      /\ << >> \o <<"reaction">> = <<"reaction">>
      /\ <<"edit">> \o <<"reaction">> = <<"edit", "reaction">>
  <2>1. \A x : <<x>> \in Seq({"edit", "reaction"}) => << >> \o <<x>> = <<x>> /\ <<x>> \o << >> = <<x>>
    OBVIOUS
  <2>2. << >> \o << >> = << >>
    OBVIOUS
  <2>3. <<"edit">> \in Seq({"edit", "reaction"}) /\ <<"reaction">> \in Seq({"edit", "reaction"})
    OBVIOUS
  <2>4. <<"edit">> \o <<"reaction">> = <<"edit", "reaction">>
    <3> DEFINE S == {"edit", "reaction"}
               both == <<"edit", "reaction">>
    <3>1. both \in Seq(S) /\ Len(both) = 2 /\ both[1] = "edit" /\ both[2] = "reaction"
      OBVIOUS
    <3>2. /\ Len(<<"edit">>) = 1 /\ <<"edit">>[1] = "edit"
          /\ Len(<<"reaction">>) = 1 /\ <<"reaction">>[1] = "reaction"
      OBVIOUS
    <3> DEFINE joined == <<"edit">> \o <<"reaction">>
    <3>3. joined \in Seq(S) /\ Len(joined) = 2 /\ joined[1] = "edit" /\ joined[2] = "reaction"
      BY <2>3, <3>2, ConcatProperties
    <3> HIDE DEF both, joined, S
    <3>4. joined = both
      BY <3>1, <3>3, SeqEqual
    <3> QED  BY <3>4 DEF both, joined
  <2> QED  BY <2>1, <2>2, <2>3, <2>4
<1>2. CASE Text(u) # Text(v) /\ Reaction(u) # Reaction(v)
  <2>1. Changes(u, v) = <<"edit", "reaction">>
    BY <1>1, <1>2 DEF Changes
  <2> QED  BY <1>2, <2>1, Lists DEF Orders, Visible, Value
<1>3. CASE Text(u) # Text(v) /\ Reaction(u) = Reaction(v)
  <2>1. Changes(u, v) = <<"edit">>
    BY <1>1, <1>3 DEF Changes
  <2> QED  BY <1>3, <2>1, Lists DEF Orders, Visible, Value
<1>4. CASE Text(u) = Text(v) /\ Reaction(u) # Reaction(v)
  <2>1. Changes(u, v) = <<"reaction">>
    BY <1>1, <1>4 DEF Changes
  <2> QED  BY <1>4, <2>1, Lists DEF Orders, Visible, Value
<1>5. CASE Text(u) = Text(v) /\ Reaction(u) = Reaction(v)
  <2>1. Changes(u, v) = << >>
    BY <1>1, <1>5 DEF Changes
  <2> QED  BY <1>5, <2>1, Lists DEF Orders, Visible, Value
<1> QED  BY <1>2, <1>3, <1>4, <1>5

\* Where a task gets to.
LEMMA TaskMoves ==
  ASSUME Typed, NEW t \in Tasks, NEW pc, Goes(t, pc) \/ Turns(t, pc) \/ Ends(t)
  PROVE  /\ \A s \in Tasks : s # t => task'[s] = task[s]
         /\ Goes(t, pc) => task'[t].pc = pc /\ task'[t].on = task[t].on
                           /\ task'[t].todo = task[t].todo
         /\ Turns(t, pc) => task'[t].pc = pc /\ task'[t].on = task[t].on
                            /\ task'[t].todo = Tail(task[t].todo)
         /\ Ends(t) => task'[t] = IdleTask /\ task'[t].pc = "idle"
<1> USE DEF Typed
<1>1. ASSUME Goes(t, pc)
      PROVE  /\ \A s \in Tasks : s # t => task'[s] = task[s]
             /\ task'[t].pc = pc /\ task'[t].on = task[t].on /\ task'[t].todo = task[t].todo
  BY <1>1 DEF Goes
<1>2. ASSUME Turns(t, pc)
      PROVE  /\ \A s \in Tasks : s # t => task'[s] = task[s]
             /\ task'[t].pc = pc /\ task'[t].on = task[t].on
             /\ task'[t].todo = Tail(task[t].todo)
  BY <1>2 DEF Turns
<1>3. ASSUME Ends(t)
      PROVE  /\ \A s \in Tasks : s # t => task'[s] = task[s]
             /\ task'[t] = IdleTask /\ task'[t].pc = "idle"
  BY <1>3 DEF Ends, IdleTask
<1> QED  BY <1>1, <1>2, <1>3

\* A task that is somewhere has an update, of a message there is.
LEMMA OnUpdate ==
  ASSUME DInv, NEW t \in Tasks, task[t].pc # "idle"
  PROVE  /\ task[t].on \in Updates /\ Of(task[t].on) \in Messages
         /\ Update[task[t].on].family # "delete" => Update[task[t].on].family = "snapshot"
         /\ task[t].on \in Nat /\ task[t].on > 0
<1>1. task[t].on \in Updates
  BY DEF DInv, Sound
<1>2. task[t].on \in Nat /\ task[t].on > 0
  BY <1>1
<1> QED  BY <1>1, <1>2, Constants, OwnerUpdatesAssumption

\* One task at a time is inside for a message.
LEMMA OneInside ==
  ASSUME LInv, NEW s \in Tasks, NEW t \in Tasks, Holds(s), Holds(t), asked[s] = asked[t]
  PROVE  s = t
  BY InvariantImplies DEF MutualExclusion

\* One reader at a time for a message.
LEMMA OneReader ==
  ASSUME LInv, NEW s \in Tasks, NEW t \in Tasks, Placed(s), Placed(t), Reads(s), Reads(t),
         Of(task[s].on) = Of(task[t].on)
  PROVE  s = t
  BY OneInside DEF Placed

\* Nobody else's place in the lock changes when a task enters, leaves or is let in.
LEMMA OthersStay ==
  ASSUME LInv, NEW t \in Tasks,
         (\E k \in Keys : Enter(t, k)) \/ Granted(t) \/ Leave(t) \/ UNCHANGED lockVars
  PROVE  /\ \A s \in Tasks : s # t => asked'[s] = asked[s] /\ (Holds(s) => Holds(s)')
         /\ Granted(t) \/ UNCHANGED lockVars => asked' = asked /\ (Holds(t) => Holds(t)')
<1> USE KeyedLockAssumption DEF LInv, LocksTyped
<1>1. CASE \E k \in Keys : Enter(t, k)
  <2> PICK k \in Keys : Enter(t, k)
    BY <1>1
  <2>1. asked' = [asked EXCEPT ![t] = k]
        /\ \A o \in Objects : holder[o] # Nobody => holder'[o] = holder[o]
    BY DEF Enter
  <2>2. Granted(t) => asked' = asked /\ (Holds(t) => Holds(t)')
    <3> SUFFICES ASSUME Granted(t) PROVE asked' = asked /\ (Holds(t) => Holds(t)')
      OBVIOUS
    <3> QED  BY <2>1 DEF Granted, Holds
  <2> QED  BY <2>1, <2>2 DEF Holds, lockVars
<1>2. CASE Granted(t)
  <2>1. asked' = asked /\ \A o \in Objects : holder[o] # Nobody => holder'[o] = holder[o]
    BY <1>2 DEF Granted
  <2> QED  BY <2>1 DEF Holds
<1>3. CASE Leave(t)
  <2> PICK o \in Objects : holder[o] = t /\ holder' = [holder EXCEPT ![o] = Nobody] /\ CountedDown(t, o)
    BY <1>3 DEF Leave
  <2>1. asked' = [asked EXCEPT ![t] = Nobody]
        /\ \A p \in Objects : holder[p] # t => holder'[p] = holder[p]
    BY DEF CountedDown
  <2>2. ~Granted(t) \/ asked' = asked
    BY DEF Granted
  <2>3. Granted(t) => (Holds(t) => Holds(t)')
    <3> SUFFICES ASSUME Granted(t) PROVE Holds(t)'
      OBVIOUS
    <3> QED  BY DEF Granted, Holds
  <2>4. UNCHANGED lockVars => asked' = asked /\ (Holds(t) => Holds(t)')
    BY DEF lockVars, Holds
  <2> QED  BY <2>1, <2>2, <2>3, <2>4 DEF Holds
<1>4. CASE UNCHANGED lockVars
  BY <1>4 DEF lockVars, Holds
<1> QED  BY <1>1, <1>2, <1>3, <1>4

-----------------------------------------------------------------------------
(* What is derived, step by step *)

\* A task a step does not touch, and one that is no reader after it: where it was one,
\* its update has no job or its message is put down as torn.
Stays(s) == task'[s] = task[s] /\ asked'[s] = asked[s] /\ (Holds(s) => Holds(s)')
Retires(s) == /\ ~Reads(s)' /\ Placed(s)'
              /\ Reads(s) => \/ Of(task[s].on) \in torn'
                             \/ \A k \in Visible : ~Has(k, task[s].on)

\* Versions are numbers, and no message is seen before a version it has.
LEMMA Numbers ==
  ASSUME DInv, SumInv, NEW m \in Messages
  PROVE  /\ version[m].pts \in Nat /\ version[m].pts \in 0..LastPts
         /\ first[m] \in Nat /\ first[m] \in 0..LastPts
         /\ first[m] <= version[m].pts
<1>1. first[m] \in 0..LastPts /\ first[m] <= version[m].pts
  BY DEF SumInv, FirstSeen
<1>2. version[m] \in [known : BOOLEAN, pts : 0..LastPts] /\ version[m].pts \in Nat
  BY VersionsTyped DEF DInv
<1> QED  BY <1>1, <1>2

\* Visible effects are effects.
LEMMA HasTyped == \A k \in Visible, u \in Updates : <<k, u>> \in Effects
  BY DEF Visible, Effects

\* Where no version moves, a job that is new is of no version reached.
LEMMA SumsStay ==
  ASSUME DInv, SumInv, UNCHANGED <<version, first>>, torn \subseteq torn',
         \A k \in Visible, u \in Updates : u <= version[Of(u)].pts => (Has(k, u)' <=> Has(k, u))
  PROVE  FirstSeen' /\ Sums'
<1>1. FirstSeen'
  BY DEF SumInv, FirstSeen
<1>2. ASSUME NEW m \in Messages \ torn', version'[m].known, NEW k \in Visible
      PROVE  \E c \in 0..LastPts : Top(k, m, c)' /\ Value(k, c) = Value(k, version'[m].pts)
  <2>1. m \in Messages \ torn /\ version[m].known
    BY <1>2
  <2>2. PICK c \in 0..LastPts : Top(k, m, c) /\ Value(k, c) = Value(k, version[m].pts)
    BY <2>1 DEF SumInv, Sums
  <2>3. Handed(k, m)' = Handed(k, m)
    <3>1. \A u \in first[m]..version[m].pts \cap Updates : Of(u) = m => (Has(k, u)' <=> Has(k, u))
      BY <2>1, Numbers
    <3> QED  BY <3>1 DEF Handed
  <2>4. Top(k, m, c)'
    BY <2>2, <2>3 DEF Top
  <2> QED  BY <2>2, <2>4
<1> QED  BY <1>1, <1>2 DEF Sums, Value

\* An update that is not reached is beyond the version, known or not.
LEMMA Ahead ==
  ASSUME DInv, SumInv, NEW u \in Updates, ~version[Of(u)].known \/ u > version[Of(u)].pts
  PROVE  u > version[Of(u)].pts /\ u \in Nat /\ version[Of(u)].pts \in Nat
<1>1. Of(u) \in Messages /\ u \in Nat /\ u > 0
  <2>1. Of(u) \in Messages
    BY Constants
  <2>2. u \in Nat /\ u > 0
    OBVIOUS
  <2> QED  BY <2>1, <2>2
<1>2. version[Of(u)].pts \in Nat
  BY <1>1, Numbers
<1>3. ~version[Of(u)].known => version[Of(u)].pts = 0
  BY <1>1 DEF SumInv, FirstSeen
<1> QED  BY <1>1, <1>2, <1>3

\* A reader a step does not touch has found what is still so.
LEMMA DerivesStays ==
  ASSUME DInv, SumInv, NEW s \in Tasks, task'[s] = task[s], torn \subseteq torn',
         \A u \in Updates : Reads(s) /\ task[s].on = u =>
             /\ version'[Of(u)] = version[Of(u)]
             /\ \A k \in Visible : Has(k, u)' <=> Has(k, u)
  PROVE  Derives(s)'
<1> SUFFICES ASSUME NEW u \in Updates, Reads(s)', task'[s].on = u PROVE Found(s, u)'
  BY DEF Derives
<1>1. Reads(s) /\ task[s].on = u
  BY DEF Reads
<1>2. Found(s, u) /\ version'[Of(u)] = version[Of(u)]
  BY <1>1 DEF SumInv, Derives
<1>3. \A k \in Visible : Has(k, u)' <=> Has(k, u)
  BY <1>1
<1>4. \A k : (Awaits(s, k)' <=> Awaits(s, k)) /\ (At(s, k)' <=> At(s, k))
  BY DEF Awaits, At, Carries
<1> QED  BY <1>2, <1>3, <1>4 DEF Found, Value

\* A step in which every task stays what it is or is no reader after it.
LEMMA SumFrame ==
  ASSUME DInv, SumInv, UNCHANGED <<version, first>>, torn \subseteq torn',
         \A k \in Visible, u \in Updates : Has(k, u)' <=> Has(k, u),
         \A s \in Tasks : Stays(s) \/ Retires(s)
  PROVE  SumInv'
<1>1. FirstSeen' /\ Sums'
  BY SumsStay
<1>2. ASSUME NEW s \in Tasks PROVE Placed(s)' /\ Derives(s)'
  <2>1. CASE Retires(s)
    BY <2>1 DEF Retires, Derives
  <2>2. CASE Stays(s)
    <3>1. Placed(s) /\ Derives(s)
      BY DEF SumInv
    <3>2. Placed(s)'
      BY <2>2, <3>1 DEF Stays, Placed, Reads
    <3>3. Derives(s)'
      BY <2>2, DerivesStays DEF Stays
    <3> QED  BY <3>2, <3>3
  <2> QED  BY <2>1, <2>2
<1>3. Came'
  <2> SUFFICES ASSUME NEW u \in Updates, NEW k \in Visible, Has(k, u)', Of(u) \notin torn'
               PROVE  \/ version[Of(u)].known /\ u <= version[Of(u)].pts
                      \/ \E t \in Tasks : Reads(t)' /\ task'[t].on = u
    BY DEF Came
  <2>1. Has(k, u) /\ Of(u) \notin torn
    OBVIOUS
  <2>2. CASE version[Of(u)].known /\ u <= version[Of(u)].pts
    BY <2>2
  <2>3. ASSUME NEW t \in Tasks, Reads(t), task[t].on = u
        PROVE  Reads(t)' /\ task'[t].on = u
    BY <2>1, <2>3 DEF Retires, Stays, Reads
  <2> QED  BY <2>1, <2>2, <2>3 DEF SumInv, Came
<1> QED  BY <1>1, <1>2, <1>3 DEF SumInv

\* Where readers are not concerned, and no lock changes hands but by a reader that left.
LEMMA SumBeside ==
  ASSUME DInv, LInv, SumInv, NEW t \in Tasks,
         \A s \in Tasks : s # t => task'[s] = task[s],
         (\E k \in Keys : Enter(t, k)) \/ Granted(t) \/ Leave(t) \/ UNCHANGED lockVars,
         UNCHANGED <<version, first>>, torn \subseteq torn',
         \A k \in Visible, u \in Updates : Has(k, u)' <=> Has(k, u),
         Stays(t) \/ Retires(t)
  PROVE  SumInv'
<1>1. \A s \in Tasks : s # t => Stays(s)
  BY OthersStay DEF Stays
<1> QED  BY <1>1, SumFrame

\* Steps that leave jobs, versions and readers alone.
LEMMA SumIdle ==
  ASSUME DInv, LInv, SumInv, UNCHANGED <<version, first, torn>>, NEW t \in Tasks,
         \A s \in Tasks : s # t => task'[s] = task[s],
         \A e \in Effects : job'[e] # "none" <=> job[e] # "none",
         \/ UNCHANGED task /\ (UNCHANGED lockVars \/ Granted(t))
         \/ /\ (\E k \in Keys : Enter(t, k)) \/ UNCHANGED lockVars \/ Leave(t)
            /\ ~Reads(t) /\ ~Reads(t)' /\ Placed(t)'
  PROVE  SumInv'
<1>1. \A k \in Visible, u \in Updates : Has(k, u)' <=> Has(k, u)
  BY HasTyped DEF Has
<1>2. CASE UNCHANGED task /\ (UNCHANGED lockVars \/ Granted(t))
  <2>1. Stays(t)
    BY <1>2, OthersStay DEF Stays
  <2> QED  BY <1>1, <1>2, <2>1, SumBeside
<1>3. CASE /\ (\E k \in Keys : Enter(t, k)) \/ UNCHANGED lockVars \/ Leave(t)
           /\ ~Reads(t) /\ ~Reads(t)' /\ Placed(t)'
  <2>1. Retires(t)
    BY <1>3 DEF Retires
  <2> QED  BY <1>1, <1>3, <2>1, SumBeside
<1> QED  BY <1>2, <1>3

\* A deletion begins outside the lock, and a snapshot before it; neither reads yet.
LEMMA BeginSums ==
  ASSUME DInv, LInv, SumInv, NEW t \in Tasks, NEW u \in Updates, Begin(t, u),
         task[t].pc = "idle", UNCHANGED <<lockVars, version, job, first, torn>>
  PROVE  SumInv'
<1>1. /\ \A s \in Tasks : s # t => task'[s] = task[s]
      /\ \/ /\ Update[u].family = "delete"
            /\ task'[t] = [pc |-> "deriving", on |-> u, todo |-> <<"delete">>]
         \/ task'[t] = [pc |-> "entering", on |-> u, todo |-> << >>]
  BY DEF Begin, DInv, Typed
<1>2. ~Reads(t) /\ ~Reads(t)' /\ Placed(t)'
  BY <1>1 DEF Reads, Placed, Inside
<1> QED  BY <1>1, <1>2, SumIdle

\* The outcome of a request makes no job and loses none.
LEMMA RequestedJobs ==
  ASSUME DInv, NEW d \in Effects, Requested(d), job[d] # "none"
  PROVE  \A e \in Effects : job'[e] # "none" <=> job[e] # "none"
<1>1. job' = [job EXCEPT ![d] = "done"] \/ job' = [job EXCEPT ![d] = "pending"]
  BY DEF Requested
<1> QED  BY <1>1 DEF DInv, Typed

\* The worker makes no job and loses none.
LEMMA WorkerJobs ==
  ASSUME DInv, Working, WorkerHas
  PROVE  \A e \in Effects : job'[e] # "none" <=> job[e] # "none"
<1>1. ASSUME NEW d \in Effects, WorkerClaims(d)
      PROVE  \A e \in Effects : job'[e] # "none" <=> job[e] # "none"
  BY <1>1 DEF WorkerClaims, DInv, Typed
<1>2. worker.pc # "idle" => worker.job \in Effects
  BY DEF DInv, Typed
<1>3. CASE WorkerResolves
  BY <1>2, <1>3 DEF WorkerHas, WorkerResolves, DInv, Typed
<1>4. CASE WorkerRequests
  BY <1>2, <1>4, RequestedJobs DEF WorkerHas, WorkerRequests
<1> QED  BY <1>1, <1>3, <1>4 DEF Working

\* Writing down, draining, time, and asking for the lock: nothing is derived.
LEMMA QuietSums ==
  ASSUME DInv, LInv, SumInv, WorkerHas,
         \/ \E u \in Updates : Remember(u) \/ Time(u) \/ DrainNext(u)
         \/ ClaimDue
         \/ \E t \in Tasks : AskForLock(t) \/ LockGranted(t) \/ Account(t) \/ Drop(t)
         \/ Working
         \/ UNCHANGED vars
  PROVE  SumInv'
<1>0. Drain \in Tasks /\ Updates \subseteq Tasks
  BY Constants
<1>1. ASSUME NEW u \in Updates, Remember(u) PROVE SumInv'
  BY <1>0, <1>1, BeginSums DEF Remember, history
<1>2. ASSUME NEW u \in Updates, DrainNext(u) PROVE SumInv'
  BY <1>0, <1>2, BeginSums DEF DrainNext, durable, history
<1>3. CASE ClaimDue \/ UNCHANGED vars \/ \E u \in Updates : Time(u)
  <2>1. UNCHANGED <<lockVars, version, job, first, torn, task>>
    BY <1>3 DEF ClaimDue, vars, durable, Time, BecomesDue, LeaseLapses, history
  <2> QED  BY <1>0, <2>1, SumIdle
<1>4. CASE Working
  <2>1. UNCHANGED <<lockVars, version, first, torn, task>>
    BY <1>4 DEF Working, WorkerClaims, WorkerResolves, WorkerRequests, history
  <2>2. \A e \in Effects : job'[e] # "none" <=> job[e] # "none"
    BY <1>4, WorkerJobs
  <2> QED  BY <1>0, <2>1, <2>2, SumIdle
<1>5. ASSUME NEW t \in Tasks, AskForLock(t) PROVE SumInv'
  <2>1. /\ task[t].pc = "entering" /\ Enter(t, Of(task[t].on)) /\ Goes(t, "locked")
        /\ UNCHANGED <<version, job, first, torn>>
    BY <1>5 DEF AskForLock, durable, history
  <2>2. Of(task[t].on) \in Keys
    BY <2>1, OnUpdate
  <2>3. /\ \A s \in Tasks : s # t => task'[s] = task[s]
        /\ task'[t].pc = "locked" /\ task'[t].on = task[t].on
    BY <2>1, TaskMoves DEF DInv
  <2>4. asked'[t] = Of(task[t].on)
    BY <2>1 DEF Enter, LInv, LocksTyped
  <2>5. ~Reads(t) /\ ~Reads(t)' /\ Placed(t)'
    BY <2>1, <2>3, <2>4 DEF Reads, Placed, Inside
  <2> QED  BY <2>1, <2>2, <2>3, <2>5, SumIdle
<1>6. ASSUME NEW t \in Tasks, LockGranted(t) PROVE SumInv'
  <2>1. Granted(t) /\ UNCHANGED <<task, version, job, first, torn>>
    BY <1>6 DEF LockGranted, durable, history
  <2> QED  BY <2>1, SumIdle
<1>7. ASSUME NEW t \in Tasks, Account(t) \/ Drop(t) PROVE SumInv'
  <2>1. /\ task[t].pc \in {"accounting", "dropping"}
        /\ Goes(t, "dropping") \/ Ends(t)
        /\ UNCHANGED <<lockVars, version, job, first, torn>>
    BY <1>7 DEF Account, Drop, history
  <2>2. /\ \A s \in Tasks : s # t => task'[s] = task[s]
        /\ task'[t].pc \in {"dropping", "idle"}
    BY <2>1, TaskMoves DEF DInv
  <2>3. ~Reads(t) /\ ~Reads(t)' /\ Placed(t)'
    BY <2>1, <2>2 DEF Reads, Placed, Inside
  <2> QED  BY <2>1, <2>2, <2>3, SumIdle
<1> QED  BY <1>1, <1>2, <1>3, <1>4, <1>5, <1>6, <1>7

\* A step of the one task inside for its message, which leaves it a reader: only its own
\* update may get a job.
LEMMA ReaderSums ==
  ASSUME DInv, LInv, SumInv, NEW t \in Tasks, NEW u \in Updates,
         task[t].on = u, asked[t] = Of(u), Holds(t), task'[t].on = u,
         \A s \in Tasks : s # t => task'[s] = task[s],
         UNCHANGED <<lockVars, version, first, torn>>,
         ~version[Of(u)].known \/ u > version[Of(u)].pts,
         \A k \in Visible, w \in Updates : w # u => (Has(k, w)' <=> Has(k, w)),
         Reads(t)', Placed(t)', Found(t, u)'
  PROVE  SumInv'
<1>0. u > version[Of(u)].pts /\ u \in Nat /\ version[Of(u)].pts \in Nat
  BY Ahead
<1>1. FirstSeen' /\ Sums'
  <2>1. \A k \in Visible, w \in Updates : w <= version[Of(w)].pts => (Has(k, w)' <=> Has(k, w))
    <3> SUFFICES ASSUME NEW k \in Visible, NEW w \in Updates, w <= version[Of(w)].pts
                 PROVE  w # u
      OBVIOUS
    <3> QED  BY <1>0, Constants, VersionsTyped DEF DInv
  <2> QED  BY <2>1, SumsStay
<1>2. \A s \in Tasks : asked'[s] = asked[s] /\ (Holds(s) => Holds(s)')
  BY DEF lockVars, Holds
<1>3. ASSUME NEW s \in Tasks, s # t PROVE Placed(s)' /\ Derives(s)'
  <2>1. Placed(s) /\ Derives(s)
    BY DEF SumInv
  <2>2. Placed(s)'
    BY <1>2, <1>3, <2>1 DEF Placed, Reads
  <2>3. ASSUME NEW w \in Updates, Reads(s), task[s].on = w
        PROVE  \A k \in Visible : Has(k, w)' <=> Has(k, w)
    <3>1. asked[s] = Of(w) /\ Holds(s)
      BY <2>1, <2>3 DEF Placed
    <3> QED  BY <1>3, <2>3, <3>1, OneInside
  <2>4. Derives(s)'
    BY <1>3, <2>3, DerivesStays
  <2> QED  BY <2>2, <2>4
<1>4. Came'
  <2> SUFFICES ASSUME NEW w \in Updates, NEW k \in Visible, Has(k, w)', Of(w) \notin torn
               PROVE  \/ version[Of(w)].known /\ w <= version[Of(w)].pts
                      \/ \E s \in Tasks : Reads(s)' /\ task'[s].on = w
    BY DEF Came
  <2>1. CASE w = u
    BY <2>1
  <2>2. CASE w # u
    <3>1. Has(k, w)
      BY <2>2
    <3>2. CASE version[Of(w)].known /\ w <= version[Of(w)].pts
      BY <3>2
    <3>3. ASSUME NEW s \in Tasks, Reads(s), task[s].on = w
          PROVE  Reads(s)' /\ task'[s].on = w
      BY <2>2, <3>3 DEF Reads
    <3> QED  BY <3>1, <3>2, <3>3 DEF SumInv, Came
  <2> QED  BY <2>1, <2>2
<1>5. Derives(t)'
  BY DEF Derives
<1> QED  BY <1>1, <1>3, <1>4, <1>5 DEF SumInv

\* Who is let in to a message for an update not reached finds no change of it handed over.
LEMMA Unbegun ==
  ASSUME DInv, LInv, SumInv, NEW t \in Tasks, NEW u \in Updates, task[t].pc = "locked",
         task[t].on = u, Holds(t), ~version[Of(u)].known \/ u > version[Of(u)].pts,
         Of(u) \notin torn, NEW k \in Visible
  PROVE  ~Has(k, u)
<1> SUFFICES ASSUME Has(k, u) PROVE FALSE
  OBVIOUS
<1>1. asked[t] = Of(u) /\ ~Reads(t)
  BY DEF SumInv, Placed, Reads, Inside
<1>2. ~(version[Of(u)].known /\ u <= version[Of(u)].pts)
  BY Ahead
<1>3. PICK s \in Tasks : Reads(s) /\ task[s].on = u
  BY <1>2 DEF SumInv, Came
<1>4. asked[s] = Of(u) /\ Holds(s)
  BY <1>3 DEF SumInv, Placed
<1> QED  BY <1>1, <1>3, <1>4, OneInside

\* A reading finds its update reached, or nobody inside and no job of it: what it
\* derives is the difference.
LEMMA ReadStateSums ==
  ASSUME DInv, LInv, SumInv, NEW t \in Tasks, ReadState(t)
  PROVE  SumInv'
<1>0. task[t].pc = "locked" /\ Holds(t) /\ UNCHANGED <<version, job, first, torn>>
  BY DEF ReadState, durable, history
<1>1. PICK u \in Updates : u = task[t].on
  BY <1>0, OnUpdate
<1> DEFINE v == version[Of(u)]
<1>2. \/ Leave(t) /\ Goes(t, "accounting")
      \/ /\ ~v.known \/ u > v.pts
         /\ task' = [task EXCEPT ![t].pc = "deriving", ![t].todo = Derived(u, v)]
         /\ UNCHANGED lockVars
  BY <1>1 DEF ReadState
<1>3. /\ Of(u) \in Messages /\ Update[u].family = "snapshot"
      /\ asked[t] = Of(u) /\ ~Reads(t)
  BY <1>0, <1>1, OnUpdate DEF DInv, Sound, SumInv, Placed, Reads, Inside
<1>4. CASE Leave(t) /\ Goes(t, "accounting")
  <2>1. /\ \A s \in Tasks : s # t => task'[s] = task[s]
        /\ task'[t].pc = "accounting"
    BY <1>4, TaskMoves DEF DInv
  <2>2. ~Reads(t)' /\ Placed(t)'
    BY <2>1 DEF Reads, Placed, Inside
  <2> QED  BY <1>0, <1>3, <1>4, <2>1, <2>2, SumIdle
<1>5. CASE /\ ~v.known \/ u > v.pts
           /\ task' = [task EXCEPT ![t].pc = "deriving", ![t].todo = Derived(u, v)]
           /\ UNCHANGED lockVars
  <2>1. /\ \A s \in Tasks : s # t => task'[s] = task[s]
        /\ task'[t].pc = "deriving" /\ task'[t].on = u /\ task'[t].todo = Derived(u, v)
    BY <1>1, <1>5 DEF DInv, Typed
  <2>2. /\ Derived(u, v) \in Orders
        /\ v.known => \A k \in Visible : Member(k, Derived(u, v)) <=> Value(k, u) # Value(k, v.pts)
        /\ ~v.known => \A k : ~Member(k, Derived(u, v))
    BY ChangesAre, Lists DEF Derived
  <2>3. Reads(t)' /\ \A k : ~At(t, k)'
    BY <1>3, <2>1 DEF Reads, Inside, At, Carries
  <2>4. Placed(t)'
    BY <1>0, <1>3, <1>5, <2>1, <2>2, <2>3 DEF Placed, lockVars, Holds
  <2>5. Of(u) \notin torn => \A k \in Visible : ~Has(k, u)
    BY <1>0, <1>1, <1>5, Unbegun
  <2>6. \A k : Awaits(t, k)' <=> Member(k, Derived(u, v))
    BY <2>1 DEF Awaits
  <2>7. \A k \in Visible, w \in Updates : Has(k, w)' <=> Has(k, w)
    BY <1>0 DEF Has
  <2>8. Found(t, u)'
    BY <1>0, <1>5, <2>2, <2>3, <2>5, <2>6, <2>7 DEF Found, Value
  <2> QED  BY <1>0, <1>1, <1>3, <1>5, <2>1, <2>3, <2>4, <2>7, <2>8, ReaderSums
<1> QED  BY <1>2, <1>4, <1>5

\* Who is at an effect of a snapshot reads it; who is at another carries a deletion.
LEMMA AtAnEffect ==
  ASSUME DInv, SumInv, NEW t \in Tasks, task[t].pc \in Inside, task[t].todo # << >>
  PROVE  /\ task[t].on \in Updates /\ Of(task[t].on) \in Messages
         /\ InHand(t) = <<Head(task[t].todo), task[t].on>> /\ InHand(t) \in Effects
         /\ Reads(t) => /\ task[t].todo \in Orders /\ Head(task[t].todo) \in Visible
                        /\ asked[t] = Of(task[t].on) /\ Holds(t)
         /\ ~Reads(t) => /\ task[t].todo = <<"delete">> /\ InHand(t) = <<"delete", task[t].on>>
                         /\ Tail(task[t].todo) = << >>
<1>1. Placed(t) /\ task[t].pc # "idle"
  BY DEF SumInv, Inside
<1>2. task[t].on \in Updates /\ Of(task[t].on) \in Messages /\ InHand(t) \in Effects
  BY <1>1, OnUpdate, InHandTyped DEF DInv
<1>3. ~Reads(t) => /\ task[t].todo = <<"delete">> /\ Head(task[t].todo) = "delete"
                   /\ Tail(task[t].todo) = << >>
  <2>1. Head(<<"delete">>) = "delete" /\ Tail(<<"delete">>) = << >>
    OBVIOUS
  <2> QED  BY <1>1, <2>1 DEF Placed
<1> QED  BY <1>1, <1>2, <1>3, Lists DEF InHand, Placed

\* Handing an effect over: of a reader it was awaited and not there, unless torn before.
LEMMA SubmitSums ==
  ASSUME DInv, LInv, SumInv, NEW t \in Tasks, Submit(t)
  PROVE  SumInv'
<1> DEFINE e == InHand(t)
<1>1. /\ task[t].pc = "deriving" /\ task[t].todo # << >>
      /\ UNCHANGED <<lockVars, version, first, torn>>
      /\ \/ job[e] = "none" /\ job' = [job EXCEPT ![e] = "pending"] /\ Goes(t, "attempting")
         \/ job[e] # "none" /\ Turns(t, "deriving") /\ UNCHANGED job
  BY DEF Submit, history
<1>0. PICK u \in Updates, k \in Kinds : u = task[t].on /\ k = Head(task[t].todo)
  <2>1. task[t].todo \in Seq(Kinds)
    BY DEF DInv, Typed
  <2> QED  BY <1>1, <2>1, AtAnEffect DEF Inside
<1>2. /\ Of(u) \in Messages /\ e = <<k, u>> /\ e \in Effects
      /\ Reads(t) => /\ task[t].todo \in Orders /\ k \in Visible
                     /\ asked[t] = Of(u) /\ Holds(t)
      /\ ~Reads(t) => /\ task[t].todo = <<"delete">> /\ e = <<"delete", u>>
                      /\ Tail(task[t].todo) = << >>
  BY <1>0, <1>1, AtAnEffect DEF Inside
<1> HIDE DEF e
<1>3. /\ \A s \in Tasks : s # t => task'[s] = task[s]
      /\ task'[t].on = u
      /\ \/ task'[t].pc = "attempting" /\ task'[t].todo = task[t].todo
         \/ task'[t].pc = "deriving" /\ task'[t].todo = Tail(task[t].todo)
  BY <1>0, <1>1, TaskMoves DEF DInv
<1>4. \A d \in Effects : d # e => job'[d] = job[d]
  BY <1>1 DEF DInv, Typed
<1>5. CASE ~Reads(t)
  <2>1. ~Reads(t)' /\ Placed(t)'
    BY <1>0, <1>1, <1>2, <1>3, <1>5 DEF Reads, Placed, Inside
  <2>2. \A l \in Visible, w \in Updates : Has(l, w)' <=> Has(l, w)
    <3>1. \A l \in Visible, w \in Updates : <<l, w>> \in Effects /\ <<l, w>> # e
      BY <1>2, <1>5, HasTyped DEF Visible
    <3> QED  BY <1>4, <3>1 DEF Has
  <2>3. Retires(t)
    BY <1>5, <2>1 DEF Retires
  <2> QED  BY <1>1, <1>3, <2>2, <2>3, SumBeside
<1>6. CASE Reads(t)
  <2>1. Found(t, u) /\ Placed(t)
    BY <1>0, <1>6 DEF SumInv, Derives
  <2>2. \A l \in Visible, w \in Updates : w # u => (Has(l, w)' <=> Has(l, w))
    <3>1. \A l \in Visible, w \in Updates : w # u => <<l, w>> \in Effects /\ <<l, w>> # e
      BY <1>2, HasTyped
    <3> QED  BY <1>4, <3>1 DEF Has
  <2>3. \A l \in Visible : l # k => (Has(l, u)' <=> Has(l, u))
    <3>1. \A l \in Visible : l # k => <<l, u>> \in Effects /\ <<l, u>> # e
      BY <1>2, HasTyped
    <3> QED  BY <1>4, <3>1 DEF Has
  <2>4. Reads(t)'
    BY <1>0, <1>3, <1>6 DEF Reads, Inside
  <2>5. Placed(t)'
    BY <1>1, <1>2, <1>3, <1>6, <2>4, Lists DEF Placed, Inside, lockVars, Holds
  <2>6. k \in Visible /\ Awaits(t, k) /\ ~Carries(t)
    BY <1>0, <1>1, <1>2, <1>6, Lists DEF Awaits, Carries
  <2>7. CASE job[e] = "none" /\ job' = [job EXCEPT ![e] = "pending"] /\ Goes(t, "attempting")
    <3>1. Has(k, u)' /\ \A l : (Awaits(t, l)' <=> Awaits(t, l)) /\ (At(t, l)' <=> l = k)
      BY <1>0, <1>1, <1>2, <2>7, TaskMoves DEF DInv, Typed, Has, Carries, At, Awaits
    <3>2. Found(t, u)'
      BY <1>1, <2>1, <2>3, <2>6, <3>1 DEF Found, At, Value
    <3> QED  BY <1>0, <1>1, <1>2, <1>3, <1>6, <2>1, <2>2, <2>4, <2>5, <3>2, ReaderSums DEF Found
  <2>8. CASE job[e] # "none" /\ Turns(t, "deriving") /\ UNCHANGED job
    <3>1. Of(u) \in torn
      BY <1>2, <2>1, <2>6, <2>8 DEF Found, Has, At
    <3>2. \A l : ~At(t, l)'
      BY <2>8, TaskMoves DEF DInv, Carries, At
    <3>3. Found(t, u)'
      BY <1>1, <2>1, <3>1, <3>2 DEF Found
    <3> QED  BY <1>0, <1>1, <1>2, <1>3, <1>6, <2>1, <2>2, <2>4, <2>5, <3>3, ReaderSums DEF Found
  <2> QED  BY <1>1, <2>7, <2>8
<1> QED  BY <1>5, <1>6

\* A task at a job goes on with it, or is through with it and turns to the next effect:
\* no job is made or lost.
LEMMA CarryingSums ==
  ASSUME DInv, LInv, SumInv, NEW t \in Tasks, Carries(t),
         Goes(t, "requesting") \/ (Turns(t, "deriving") /\ (Reads(t) => job[InHand(t)] # "none")),
         \A e \in Effects : job'[e] # "none" <=> job[e] # "none",
         UNCHANGED <<lockVars, version, first, torn>>
  PROVE  SumInv'
<1>0. task[t].pc \in Inside /\ task[t].todo # << >>
  BY DEF Carries, Inside, DInv, Sound
<1>1. PICK u \in Updates, k \in Kinds : u = task[t].on /\ k = Head(task[t].todo)
  <2>1. task[t].todo \in Seq(Kinds)
    BY DEF DInv, Typed
  <2> QED  BY <1>0, <2>1, AtAnEffect
<1>2. /\ Reads(t) => /\ task[t].todo \in Orders /\ k \in Visible
                     /\ asked[t] = Of(u) /\ Holds(t)
      /\ ~Reads(t) => task[t].todo = <<"delete">> /\ Tail(task[t].todo) = << >>
  BY <1>0, <1>1, AtAnEffect
<1>3. /\ \A s \in Tasks : s # t => task'[s] = task[s]
      /\ task'[t].on = u
      /\ \/ task'[t].pc = "requesting" /\ task'[t].todo = task[t].todo
         \/ task'[t].pc = "deriving" /\ task'[t].todo = Tail(task[t].todo)
  BY <1>1, TaskMoves DEF DInv
<1>4. \A l \in Visible, w \in Updates : Has(l, w)' <=> Has(l, w)
  BY HasTyped DEF Has
<1>5. CASE ~Reads(t)
  <2>1. ~Reads(t)' /\ Placed(t)'
    BY <1>0, <1>1, <1>2, <1>3, <1>5 DEF Reads, Placed, Inside
  <2> QED  BY <1>3, <1>5, <2>1, SumIdle
<1>6. CASE Reads(t)
  <2>1. Found(t, u) /\ Placed(t)
    BY <1>1, <1>6 DEF SumInv, Derives
  <2>2. Reads(t)'
    BY <1>1, <1>3, <1>6 DEF Reads, Inside
  <2>3. Placed(t)'
    BY <1>0, <1>1, <1>2, <1>3, <1>6, <2>2, Lists DEF Placed, Inside, lockVars, Holds
  <2>4. Found(t, u)'
    <3>1. CASE Goes(t, "requesting")
      <4>1. \A l : (Awaits(t, l)' <=> Awaits(t, l)) /\ (At(t, l)' <=> At(t, l))
        BY <3>1, TaskMoves DEF DInv, Carries, At, Awaits
      <4> QED  BY <1>4, <2>1, <4>1 DEF Found, Value
    <3>2. CASE Turns(t, "deriving") /\ job[InHand(t)] # "none"
      <4>1. Has(k, u)
        BY <1>0, <1>1, <3>2, AtAnEffect DEF Has
      <4>2. \A l : ~At(t, l)'
        BY <3>2, TaskMoves DEF DInv, Carries, At
      <4>3. /\ ~Awaits(t, k)' /\ Awaits(t, k)
            /\ \A l : l # k => (Awaits(t, l)' <=> Awaits(t, l))
        <5>1. task'[t].todo = Tail(task[t].todo)
          BY <3>2, TaskMoves DEF DInv
        <5> QED  BY <1>0, <1>1, <1>2, <1>6, <5>1, Lists DEF Awaits
      <4>4. \A l \in Visible : l # k => ~At(t, l)
        BY <1>1 DEF At
      <4> QED  BY <1>4, <2>1, <4>1, <4>2, <4>3, <4>4 DEF Found, Value
    <3> QED  BY <1>6, <3>1, <3>2
  <2> QED  BY <1>1, <1>2, <1>3, <1>4, <1>6, <2>1, <2>2, <2>3, <2>4, ReaderSums DEF Found
<1> QED  BY <1>5, <1>6

\* Who carries a job of a snapshot finds it on the queue.
LEMMA CarriedIsThere ==
  ASSUME DInv, SumInv, NEW t \in Tasks, Carries(t), Reads(t)
  PROVE  job[InHand(t)] # "none" /\ InHand(t) \in Effects
<1>1. task[t].pc \in Inside /\ task[t].todo # << >>
  BY DEF Carries, Inside, DInv, Sound
<1>2. /\ task[t].on \in Updates /\ Head(task[t].todo) \in Visible /\ InHand(t) \in Effects
      /\ InHand(t) = <<Head(task[t].todo), task[t].on>>
  BY <1>1, AtAnEffect
<1> QED  BY <1>2 DEF SumInv, Derives, Found, At, Has

\* The attempt finds the job taken, claims it or settles it.
LEMMA AttemptSums ==
  ASSUME DInv, LInv, SumInv, NEW t \in Tasks, Attempt(t)
  PROVE  SumInv'
<1>1. /\ task[t].pc = "attempting" /\ UNCHANGED <<lockVars, version, first, torn>>
      /\ Goes(t, "requesting") \/ Turns(t, "deriving")
      /\ \/ UNCHANGED job
         \/ job[InHand(t)] = "pending" /\ \E state \in {"inflight", "done"} :
              job' = [job EXCEPT ![InHand(t)] = state]
  BY DEF Attempt, history
<1>2. Carries(t)
  BY <1>1 DEF Carries
<1>3. \A e \in Effects : job'[e] # "none" <=> job[e] # "none"
  BY <1>1 DEF DInv, Typed
<1>4. Reads(t) => job[InHand(t)] # "none"
  BY <1>2, CarriedIsThere
<1> QED  BY <1>1, <1>2, <1>3, <1>4, CarryingSums

\* The request settles the job or gives it back, and the reader turns to the next.
LEMMA RequestSums ==
  ASSUME DInv, LInv, SumInv, NEW t \in Tasks, Request(t), job[InHand(t)] # "none"
  PROVE  SumInv'
<1>1. /\ task[t].pc = "requesting" /\ UNCHANGED <<lockVars, version, first, torn>>
      /\ Turns(t, "deriving") /\ Requested(InHand(t))
  BY DEF Request
<1>2. Carries(t)
  BY <1>1 DEF Carries
<1>3. InHand(t) \in Effects
  BY <1>1, InHandTyped DEF DInv, Sound
<1>4. \A e \in Effects : job'[e] # "none" <=> job[e] # "none"
  BY <1>1, <1>3, RequestedJobs
<1> QED  BY <1>1, <1>2, <1>4, CarryingSums

\* Whoever ends early with an effect of its update handed over has torn its message.
LEMMA TearsReaders ==
  ASSUME DInv, SumInv, NEW S \in SUBSET Tasks, Tears(S), NEW t \in S, Reads(t)
  PROVE  Of(task[t].on) \in torn' \/ \A k \in Visible : ~Has(k, task[t].on)
<1>1. PICK u \in Updates : u = task[t].on
  BY OnUpdate DEF Reads, Inside
<1>2. version[Of(u)].pts < u /\ u # 0 /\ Update[u].family = "snapshot"
  <2>1. Found(t, u)
    BY <1>1 DEF SumInv, Derives
  <2>2. u > version[Of(u)].pts /\ version[Of(u)].pts \in Nat
    BY <2>1, Ahead DEF Found
  <2> QED  BY <1>1, <2>2 DEF Reads
<1>3. ASSUME NEW k \in Visible, Has(k, u) PROVE Of(u) \in torn'
  <2>1. \E l \in Kinds : job[<<l, u>>] # "none"
    BY <1>3 DEF Has, Visible
  <2> QED  BY <1>1, <1>2, <2>1 DEF Tears
<1> QED  BY <1>1, <1>3

\* An exception puts its task out of the lock, and its message down where it tore it.
LEMMA RaisesSums ==
  ASSUME DInv, LInv, SumInv, NEW t \in Tasks, Raises(t)
  PROVE  SumInv'
<1>1. /\ Leave(t) \/ UNCHANGED lockVars
      /\ Tears({t}) /\ Ends(t) /\ UNCHANGED <<version, job, first>>
  BY DEF Raises
<1>2. (\A s \in Tasks : s # t => task'[s] = task[s]) /\ task'[t].pc = "idle"
  BY <1>1, TaskMoves DEF DInv
<1>3. Retires(t)
  <2>1. ~Reads(t)' /\ Placed(t)'
    BY <1>2 DEF Reads, Placed, Inside
  <2>2. Reads(t) => Of(task[t].on) \in torn' \/ \A k \in Visible : ~Has(k, task[t].on)
    BY <1>1, TearsReaders
  <2> QED  BY <2>1, <2>2 DEF Retires
<1>4. torn \subseteq torn' /\ \A k \in Visible, u \in Updates : Has(k, u)' <=> Has(k, u)
  BY <1>1 DEF Tears, Has
<1> QED  BY <1>1, <1>2, <1>3, <1>4, SumBeside

\* So does a crash, for all of them.
LEMMA CrashSums ==
  ASSUME DInv, SumInv, Crash
  PROVE  SumInv'
<1>1. /\ Tears(Tasks) /\ task' = [t \in Tasks |-> IdleTask]
      /\ job' = [e \in Effects |-> IF job[e] = "inflight" THEN "pending" ELSE job[e]]
      /\ UNCHANGED <<version, first>>
  BY DEF Crash
<1>2. ASSUME NEW t \in Tasks PROVE Retires(t)
  <2>1. ~Reads(t)' /\ Placed(t)'
    BY <1>1 DEF Reads, Placed, Inside, IdleTask
  <2>2. Reads(t) => Of(task[t].on) \in torn' \/ \A k \in Visible : ~Has(k, task[t].on)
    BY <1>1, TearsReaders
  <2> QED  BY <2>1, <2>2 DEF Retires
<1>3. torn \subseteq torn' /\ \A k \in Visible, u \in Updates : Has(k, u)' <=> Has(k, u)
  <2>1. \A k \in Visible, u \in Updates : job'[<<k, u>>] # "none" <=> job[<<k, u>>] # "none"
    BY <1>1, HasTyped
  <2> QED  BY <1>1, <2>1 DEF Tears, Has
<1> QED  BY <1>1, <1>2, <1>3, SumFrame

\* A baseline is put down where nobody is inside: no reader judged by its absence.
LEMMA SeedSums ==
  ASSUME DInv, LInv, SumInv, NEW m \in Messages, SeedBaseline(m)
  PROVE  SumInv'
<1>1. /\ ~version[m].known /\ version' = [version EXCEPT ![m].known = TRUE]
      /\ \A o \in Objects : locks[m] = o => holder[o] = Nobody
      /\ UNCHANGED <<lockVars, job, task, first, torn>>
  BY DEF SeedBaseline, history
<1>2. /\ \A l \in Messages : l # m => version'[l] = version[l]
      /\ version'[m].known /\ version'[m].pts = version[m].pts
  BY <1>1 DEF DInv, Typed
<1>3. version[m].pts = 0 /\ first[m] = 0
  BY <1>1, Numbers DEF SumInv, FirstSeen
<1>4. \A t \in Tasks : ~(Holds(t) /\ asked[t] = m)
  <2> SUFFICES ASSUME NEW t \in Tasks, NEW o \in Objects, holder[o] = t, asked[t] = m PROVE FALSE
    BY DEF Holds
  <2>1. t \in users[o] /\ t # Nobody
    BY KeyedLockAssumption DEF LInv, Counted
  <2>2. locks[m] = o
    BY <2>1 DEF LInv, Filed
  <2> QED  BY <1>1, <2>1, <2>2
<1>5. ASSUME NEW t \in Tasks PROVE Placed(t)' /\ Derives(t)'
  <2>1. Placed(t)
    BY DEF SumInv
  <2>2. Placed(t)'
    BY <1>1, <2>1 DEF Placed, Reads, Holds, lockVars
  <2>3. \A u \in Updates : Reads(t) /\ task[t].on = u => Of(u) \in Messages /\ Of(u) # m
    BY <1>4, <2>1, Constants DEF Placed
  <2>4. Derives(t)'
    BY <1>1, <1>2, <2>3, DerivesStays DEF Has
  <2> QED  BY <2>2, <2>4
<1>6. Came'
  <2> SUFFICES ASSUME NEW u \in Updates, NEW k \in Visible, Has(k, u)', Of(u) \notin torn
               PROVE  \/ version'[Of(u)].known /\ u <= version'[Of(u)].pts
                      \/ \E t \in Tasks : Reads(t)' /\ task'[t].on = u
    BY <1>1 DEF Came
  <2>1. Has(k, u) /\ Of(u) \in Messages
    BY <1>1, Constants DEF Has
  <2>2. version[Of(u)].known => version'[Of(u)] = version[Of(u)]
    BY <1>1, <1>2, <2>1
  <2> QED  BY <1>1, <2>1, <2>2 DEF SumInv, Came, Reads
<1>7. FirstSeen'
  BY <1>1, <1>2 DEF SumInv, FirstSeen
<1>8. Sums'
  <2> SUFFICES ASSUME NEW l \in Messages \ torn, version'[l].known, NEW k \in Visible
               PROVE  \E c \in 0..LastPts : Top(k, l, c)' /\ Value(k, c) = Value(k, version'[l].pts)
    BY <1>1 DEF Sums, Value
  <2>1. CASE l = m
    <3>1. 0 \in 0..LastPts
      BY Constants
    <3>2. Handed(k, m)' = {}
      BY <1>1, <1>2, <1>3 DEF Handed
    <3>3. Top(k, m, 0)'
      BY <1>1, <1>3, <3>2 DEF Top
    <3> QED  BY <1>2, <1>3, <2>1, <3>1, <3>3
  <2>2. CASE l # m
    <3>1. version'[l] = version[l]
      BY <1>2, <2>2
    <3>2. PICK c \in 0..LastPts : Top(k, l, c) /\ Value(k, c) = Value(k, version[l].pts)
      BY <3>1 DEF SumInv, Sums
    <3>3. Handed(k, l)' = Handed(k, l)
      BY <1>1, <3>1 DEF Handed, Has
    <3> QED  BY <1>1, <3>1, <3>2, <3>3 DEF Top
  <2> QED  BY <2>1, <2>2
<1> QED  BY <1>1, <1>5, <1>6, <1>7, <1>8 DEF SumInv

\* A version moves to the update of the one reader of its message, and what was handed
\* over in between is that update's alone.
LEMMA AdvanceSums ==
  ASSUME DInv, LInv, SumInv, NEW t \in Tasks, Advance(t)
  PROVE  SumInv'
<1>1. /\ task[t].pc = "deriving" /\ task[t].todo = << >> /\ Goes(t, "accounting")
      /\ UNCHANGED <<job, torn>>
  BY DEF Advance
<1>2. /\ \A s \in Tasks : s # t => task'[s] = task[s]
      /\ task'[t].pc = "accounting"
  BY <1>1, TaskMoves DEF DInv
<1>3. ~Reads(t)' /\ Placed(t)'
  BY <1>2 DEF Reads, Placed, Inside
<1>4. PICK u \in Updates : u = task[t].on /\ Of(u) \in Messages
  BY <1>1, OnUpdate
<1>5. CASE Update[u].family = "delete"
  <2>1. UNCHANGED <<lockVars, version, first>> /\ ~Reads(t)
    BY <1>4, <1>5 DEF Advance, Reads
  <2> QED  BY <1>1, <1>2, <1>3, <2>1, SumIdle
<1>6. CASE Update[u].family # "delete"
  <2> DEFINE m == Of(u)
             v == version[m]
  <2>1. /\ Leave(t) /\ Update[u].family = "snapshot"
        /\ version' = [version EXCEPT ![m] = Advanced(@, u)]
        /\ first' = [first EXCEPT ![m] = IF version[m].known THEN @ ELSE u]
    BY <1>4, <1>6 DEF Advance
  <2>2. Reads(t) /\ Found(t, u)
    BY <1>1, <1>4, <2>1 DEF Reads, Inside, SumInv, Derives
  <2>3. v.pts \in Nat /\ u \in Nat /\ u > v.pts /\ (~v.known \/ u > v.pts)
    BY <2>2, Ahead DEF Found
  <2>4. /\ \A l \in Messages : l # m => version'[l] = version[l] /\ first'[l] = first[l]
        /\ version'[m].known /\ version'[m].pts = u
        /\ first'[m] = IF v.known THEN first[m] ELSE u
    <3>1. Advanced(v, u) = [known |-> TRUE, pts |-> u]
      BY <2>3 DEF Advanced
    <3> QED  BY <1>4, <2>1, <3>1 DEF DInv, Typed, SumInv
  <2>5. m \notin torn => \A k \in Visible :
          IF v.known THEN Has(k, u) <=> Value(k, u) # Value(k, v.pts) ELSE ~Has(k, u)
    <3>1. \A k : ~Awaits(t, k)
      BY <1>1, Lists DEF Awaits
    <3> QED  BY <2>2, <3>1 DEF Found
  <2>6. \A s \in Tasks : Reads(s) /\ Of(task[s].on) = m => s = t
    BY <1>4, <2>2, OneReader DEF SumInv
  <2>7. ASSUME NEW s \in Tasks PROVE Placed(s)' /\ Derives(s)'
    <3>1. CASE s = t
      BY <1>3, <3>1 DEF Derives
    <3>2. CASE s # t
      <4>1. Placed(s)
        BY DEF SumInv
      <4>2. asked'[s] = asked[s] /\ (Holds(s) => Holds(s)') /\ task'[s] = task[s]
        BY <1>2, <2>1, <3>2, OthersStay
      <4>3. Placed(s)'
        BY <4>1, <4>2 DEF Placed, Reads
      <4>4. ASSUME NEW w \in Updates, Reads(s), task[s].on = w
            PROVE  version'[Of(w)] = version[Of(w)]
        BY <2>4, <2>6, <3>2, <4>4, Constants
      <4>5. Derives(s)'
        BY <1>1, <4>2, <4>4, DerivesStays DEF Has
      <4> QED  BY <4>3, <4>5
    <3> QED  BY <3>1, <3>2
  <2>8. Came'
    <3> SUFFICES ASSUME NEW w \in Updates, NEW k \in Visible, Has(k, w)', Of(w) \notin torn'
                 PROVE  \/ version'[Of(w)].known /\ w <= version'[Of(w)].pts
                        \/ \E s \in Tasks : Reads(s)' /\ task'[s].on = w
      BY DEF Came
    <3>1. Has(k, w) /\ Of(w) \notin torn /\ Of(w) \in Messages /\ w \in Nat
      BY <1>1, Constants DEF Has
    <3>2. \/ version[Of(w)].known /\ w <= version[Of(w)].pts
          \/ \E s \in Tasks : Reads(s) /\ task[s].on = w
      BY <3>1 DEF SumInv, Came
    <3>3. CASE Of(w) = m
      <4>1. w <= v.pts \/ w = u
        BY <1>4, <2>6, <3>2, <3>3
      <4> QED  BY <2>3, <2>4, <3>1, <3>3, <4>1
    <3>4. CASE Of(w) # m
      <4>1. ASSUME NEW s \in Tasks, Reads(s), task[s].on = w
            PROVE  Reads(s)' /\ task'[s].on = w
        BY <1>2, <1>4, <3>4, <4>1 DEF Reads
      <4> QED  BY <2>4, <3>1, <3>2, <3>4, <4>1
    <3> QED  BY <3>3, <3>4
  <2>9. FirstSeen'
    <3>1. ASSUME NEW l \in Messages
          PROVE  first'[l] <= version'[l].pts /\ (~version'[l].known => version'[l].pts = 0)
      <4>1. CASE l = m
        <5>1. first[m] \in Nat /\ first[m] <= v.pts
          BY <1>4, Numbers
        <5> QED  BY <2>3, <2>4, <4>1, <5>1
      <4>2. CASE l # m
        BY <2>4, <4>2 DEF SumInv, FirstSeen
      <4> QED  BY <4>1, <4>2
    <3> QED  BY <3>1 DEF FirstSeen
  <2>10. ASSUME NEW l \in Messages \ torn, version'[l].known, NEW k \in Visible
         PROVE  \E c \in 0..LastPts : Top(k, l, c)' /\ Value(k, c) = Value(k, version'[l].pts)
    <3>1. CASE l # m
      <4>1. version'[l] = version[l] /\ first'[l] = first[l]
        BY <2>4, <3>1
      <4>2. PICK c \in 0..LastPts : Top(k, l, c) /\ Value(k, c) = Value(k, version[l].pts)
        BY <2>10, <4>1 DEF SumInv, Sums
      <4>3. Handed(k, l)' = Handed(k, l)
        BY <1>1, <4>1 DEF Handed, Has
      <4> QED  BY <4>1, <4>2, <4>3 DEF Top
    <3>2. CASE l = m /\ ~v.known
      <4>1. first'[m] = u /\ ~Has(k, u)'
        BY <1>1, <2>4, <2>5, <2>10, <3>2 DEF Has
      <4>2. \A w \in u..u : w = u
        BY <2>3
      <4>3. Handed(k, m)' = {}
        BY <2>4, <4>1, <4>2 DEF Handed
      <4>4. Top(k, m, u)' /\ u \in 0..LastPts
        BY <4>1, <4>3, Constants DEF Top
      <4> QED  BY <2>4, <3>2, <4>4
    <3>3. CASE l = m /\ v.known
      <4>1. PICK c \in 0..LastPts : Top(k, m, c) /\ Value(k, c) = Value(k, v.pts)
        BY <2>10, <3>3 DEF SumInv, Sums
      <4>2. Has(k, u) <=> Value(k, u) # Value(k, v.pts)
        BY <2>5, <2>10, <3>3
      <4>3. /\ first'[m] = first[m] /\ first[m] \in Nat /\ first[m] <= v.pts
            /\ \A w \in Updates : w \in Nat
        BY <1>4, <2>4, <3>3, Numbers
      <4>4. ASSUME NEW w \in Updates, Of(w) = m, Has(k, w) PROVE w <= v.pts \/ w = u
        BY <1>4, <2>6, <2>10, <3>3, <4>4 DEF SumInv, Came
      <4>5. Handed(k, m)' = IF Has(k, u) THEN Handed(k, m) \cup {u} ELSE Handed(k, m)
        <5>1. ASSUME NEW w \in Updates, Of(w) = m, Has(k, w)
              PROVE  w \in first[m]..u <=> w \in first[m]..v.pts \/ w = u
          BY <2>3, <4>3, <4>4, <5>1
        <5>2. Handed(k, m)' = {w \in first[m]..u \cap Updates : Of(w) = m /\ Has(k, w)}
          BY <1>1, <2>4, <4>3 DEF Handed, Has
        <5> QED  BY <2>3, <4>3, <5>1, <5>2 DEF Handed
      <4>6. CASE Has(k, u)
        <5>1. \A w \in Handed(k, m)' : w <= u
          BY <2>3, <2>4, <4>3 DEF Handed
        <5>2. Top(k, m, u)' /\ u \in 0..LastPts
          BY <4>5, <4>6, <5>1, Constants DEF Top
        <5> QED  BY <2>4, <3>3, <5>2
      <4>7. CASE ~Has(k, u)
        <5>1. Top(k, m, c)'
          BY <4>1, <4>3, <4>5, <4>7 DEF Top
        <5> QED  BY <2>4, <3>3, <4>1, <4>2, <4>7, <5>1
      <4> QED  BY <4>6, <4>7
    <3> QED  BY <3>1, <3>2, <3>3
  <2>11. Sums'
    BY <1>1, <2>10 DEF Sums, Value
  <2>12. first' \in [Messages -> 0..LastPts]
    BY <2>1, <1>4, Constants DEF SumInv
  <2> QED  BY <2>7, <2>8, <2>9, <2>11, <2>12 DEF SumInv
<1> QED  BY <1>5, <1>6

-----------------------------------------------------------------------------
(* What is in hand is on the queue *)

OnQueue == WorkerHas /\ \A t \in Tasks : Carries(t) => job[InHand(t)] # "none"
JobsStay == \A e \in Effects : job[e] # "none" => job'[e] # "none"

\* A task whose place does not change carries what it carried.
LEMMA StaysOnQueue ==
  ASSUME DInv, OnQueue, JobsStay, NEW s \in Tasks, task'[s] = task[s]
  PROVE  Carries(s)' => job'[InHand(s)'] # "none"
<1>1. Carries(s)' => Carries(s) /\ InHand(s)' = InHand(s)
  BY DEF Carries, InHand
<1>2. Carries(s) => InHand(s) \in Effects
  BY InHandTyped DEF Carries, DInv, Sound
<1> QED  BY <1>1, <1>2 DEF OnQueue, JobsStay

\* So every step of one task that takes up nothing, the worker being as it was.
LEMMA OneOnQueue ==
  ASSUME DInv, OnQueue, JobsStay, NEW t \in Tasks, UNCHANGED worker,
         \A s \in Tasks : s # t => task'[s] = task[s],
         Carries(t)' => job'[InHand(t)'] # "none"
  PROVE  OnQueue'
<1>1. \A s \in Tasks : Carries(s)' => job'[InHand(s)'] # "none"
  BY StaysOnQueue
<1>2. WorkerHas'
  BY DEF WorkerHas, OnQueue, JobsStay, DInv, Typed
<1> QED  BY <1>1, <1>2 DEF OnQueue

\* Nobody makes a job vanish, and whoever takes one up finds or puts it on the queue.
LEMMA QueueStep ==
  ASSUME DInv, OnQueue, [Next]_vars
  PROVE  OnQueue' /\ JobsStay
<1>0. Drain \in Tasks /\ Updates \subseteq Tasks
  BY Constants
<1>1. ASSUME UNCHANGED <<job, worker, task>> PROVE OnQueue' /\ JobsStay
  BY <1>0, <1>1, OneOnQueue, StaysOnQueue DEF JobsStay
<1>2. ASSUME NEW t \in Tasks, UNCHANGED <<job, worker>>, ~Carries(t)',
             \A s \in Tasks : s # t => task'[s] = task[s]
      PROVE  OnQueue' /\ JobsStay
  BY <1>2, OneOnQueue DEF JobsStay
<1>3. ASSUME NEW t \in Tasks, NEW u \in Updates, Begin(t, u), UNCHANGED <<job, worker>>
      PROVE  OnQueue' /\ JobsStay
  <2>1. /\ \A s \in Tasks : s # t => task'[s] = task[s]
        /\ task'[t].pc \in {"deriving", "entering"}
    BY <1>3 DEF Begin, DInv, Typed
  <2> QED  BY <1>2, <1>3, <2>1 DEF Carries
<1>4. ASSUME NEW u \in Updates, Remember(u) \/ DrainNext(u) PROVE OnQueue' /\ JobsStay
  BY <1>0, <1>3, <1>4 DEF Remember, DrainNext, durable
<1>5. ASSUME NEW t \in Tasks, NEW pc, pc \notin {"attempting", "requesting"},
             Goes(t, pc) \/ Turns(t, pc) \/ Ends(t), UNCHANGED worker, JobsStay
      PROVE  OnQueue'
  <2>1. (\A s \in Tasks : s # t => task'[s] = task[s]) /\ task'[t].pc \in {pc, "idle"}
    BY <1>5, TaskMoves DEF DInv
  <2> QED  BY <1>5, <2>1, OneOnQueue DEF Carries
<1>6. ASSUME NEW t \in Tasks, AskForLock(t) \/ Advance(t) \/ Account(t) \/ Drop(t) \/ Raises(t)
      PROVE  OnQueue' /\ JobsStay
  <2>1. /\ UNCHANGED <<worker, job>>
        /\ Goes(t, "locked") \/ Goes(t, "accounting") \/ Goes(t, "dropping") \/ Ends(t)
    BY <1>6 DEF AskForLock, Advance, Account, Drop, Raises, durable
  <2>2. JobsStay
    BY <2>1 DEF JobsStay
  <2> QED  BY <1>5, <2>1, <2>2
<1>7. ASSUME NEW t \in Tasks, ReadState(t) PROVE OnQueue' /\ JobsStay
  <2>1. /\ UNCHANGED <<worker, job>> /\ \A s \in Tasks : s # t => task'[s] = task[s]
        /\ task'[t].pc \in {"accounting", "deriving"}
    BY <1>7 DEF ReadState, Goes, DInv, Typed, durable
  <2> QED  BY <1>2, <2>1 DEF Carries
<1>8. ASSUME NEW t \in Tasks, Submit(t) PROVE OnQueue' /\ JobsStay
  <2>1. InHand(t) \in Effects /\ UNCHANGED worker
    BY <1>8, InHandTyped DEF Submit, DInv, Sound
  <2>2. CASE job' = [job EXCEPT ![InHand(t)] = "pending"] /\ Goes(t, "attempting")
    <3>1. (\A s \in Tasks : s # t => task'[s] = task[s]) /\ InHand(t)' = InHand(t)
      BY <2>2, TaskMoves DEF DInv, InHand
    <3>2. JobsStay /\ job'[InHand(t)] # "none"
      BY <2>1, <2>2 DEF JobsStay, DInv, Typed
    <3> QED  BY <2>1, <3>1, <3>2, OneOnQueue
  <2>3. CASE Turns(t, "deriving") /\ UNCHANGED job
    BY <1>5, <2>1, <2>3 DEF JobsStay
  <2> QED  BY <1>8, <2>2, <2>3 DEF Submit
<1>9. ASSUME NEW t \in Tasks, Attempt(t) PROVE OnQueue' /\ JobsStay
  <2>1. /\ InHand(t) \in Effects /\ UNCHANGED worker /\ Carries(t)
        /\ job[InHand(t)] # "none"
    BY <1>9, InHandTyped DEF Attempt, DInv, Sound, Carries, OnQueue
  <2>2. CASE job' = [job EXCEPT ![InHand(t)] = "inflight"] /\ Goes(t, "requesting")
    <3>1. (\A s \in Tasks : s # t => task'[s] = task[s]) /\ InHand(t)' = InHand(t)
      BY <2>2, TaskMoves DEF DInv, InHand
    <3>2. JobsStay /\ job'[InHand(t)] # "none"
      BY <2>1, <2>2 DEF JobsStay, DInv, Typed
    <3> QED  BY <2>1, <3>1, <3>2, OneOnQueue
  <2>3. CASE /\ UNCHANGED job \/ job' = [job EXCEPT ![InHand(t)] = "done"]
             /\ Turns(t, "deriving")
    <3>1. JobsStay
      BY <2>1, <2>3 DEF JobsStay, DInv, Typed
    <3> QED  BY <1>5, <2>1, <2>3, <3>1
  <2> QED  BY <1>9, <2>2, <2>3 DEF Attempt
<1>10. ASSUME NEW t \in Tasks, Request(t) PROVE OnQueue' /\ JobsStay
  <2>1. /\ InHand(t) \in Effects /\ job[InHand(t)] # "none"
        /\ UNCHANGED worker /\ Requested(InHand(t)) /\ Turns(t, "deriving")
    BY <1>10, InHandTyped DEF Request, DInv, Sound, Carries, OnQueue
  <2>2. JobsStay
    BY <2>1, RequestedJobs DEF JobsStay
  <2> QED  BY <1>5, <2>1, <2>2
<1>11. CASE Working
  <2>1. \A e \in Effects : job'[e] # "none" <=> job[e] # "none"
    BY <1>11, WorkerJobs DEF OnQueue
  <2>2. JobsStay /\ UNCHANGED task
    BY <1>11, <2>1 DEF JobsStay, Working, WorkerClaims, WorkerResolves, WorkerRequests
  <2>3. WorkerHas'
    <3>1. worker'.pc = "idle" \/ (worker'.job = worker.job /\ worker.pc # "idle")
          \/ \E e \in Effects : worker'.job = e /\ job[e] # "none"
      BY <1>11 DEF Working, WorkerClaims, WorkerResolves, WorkerRequests, DInv, Typed
    <3>2. worker.pc # "idle" => worker.job \in Effects
      BY DEF DInv, Typed
    <3> QED  BY <2>1, <3>1, <3>2 DEF WorkerHas, OnQueue
  <2> QED  BY <2>2, <2>3, StaysOnQueue DEF OnQueue
<1>12. CASE Crash
  <2>1. /\ \A t \in Tasks : ~Carries(t)'
        /\ worker'.pc = "idle"
        /\ job' = [e \in Effects |-> IF job[e] = "inflight" THEN "pending" ELSE job[e]]
    BY <1>12 DEF Crash, Carries, IdleTask
  <2> QED  BY <2>1 DEF OnQueue, WorkerHas, JobsStay
<1>13. CASE UNCHANGED vars \/ ClaimDue \/ (\E u \in Updates : Time(u))
            \/ (\E m \in Messages : SeedBaseline(m)) \/ \E t \in Tasks : LockGranted(t)
  BY <1>1, <1>13 DEF vars, durable, ClaimDue, Time, BecomesDue, LeaseLapses, SeedBaseline, LockGranted
<1> QED  BY <1>4, <1>6, <1>7, <1>8, <1>9, <1>10, <1>11, <1>12, <1>13 DEF Next, Steps, Draining

-----------------------------------------------------------------------------
(* The changes add up *)

\* Nothing is derived at first, and every message unknown.
LEMMA StartsSums == Init => SumInv /\ OnQueue
<1> SUFFICES ASSUME Init PROVE SumInv /\ OnQueue
  OBVIOUS
<1>1. first \in [Messages -> 0..LastPts] /\ FirstSeen
  BY Constants DEF Init, FirstSeen
<1>2. \A t \in Tasks : ~Reads(t) /\ ~Carries(t) /\ Placed(t)
  BY DEF Init, IdleTask, Reads, Inside, Placed, Carries
<1>3. \A k \in Visible, u \in Updates : ~Has(k, u)
  BY HasTyped DEF Init, Has
<1>4. \A m \in Messages : ~version[m].known
  BY DEF Init
<1> QED  BY <1>1, <1>2, <1>3, <1>4 DEF SumInv, OnQueue, WorkerHas, Derives, Came, Sums, Init

\* Every step derives what is between two versions, and leaves the rest alone.
LEMMA KeepsSums == DInv /\ LInv /\ OnQueue /\ SumInv /\ [Next]_vars => SumInv'
<1> SUFFICES ASSUME DInv, LInv, OnQueue, SumInv, [Next]_vars PROVE SumInv'
  OBVIOUS
<1>1. ASSUME NEW m \in Messages, SeedBaseline(m) PROVE SumInv'
  BY <1>1, SeedSums
<1>2. CASE UNCHANGED vars \/ Draining \/ Working \/ \E u \in Updates : Remember(u) \/ Time(u)
  BY <1>2, QuietSums DEF Draining, OnQueue
<1>3. ASSUME NEW t \in Tasks, Steps(t) PROVE SumInv'
  <2>1. CASE AskForLock(t) \/ LockGranted(t) \/ Account(t) \/ Drop(t)
    BY <2>1, QuietSums DEF OnQueue
  <2>2. Request(t) => job[InHand(t)] # "none"
    BY DEF OnQueue, Carries, Request
  <2> QED  BY <1>3, <2>1, <2>2, ReadStateSums, SubmitSums, AttemptSums, RequestSums,
              AdvanceSums DEF Steps
<1>4. ASSUME NEW t \in Tasks, Raises(t) PROVE SumInv'
  BY <1>4, RaisesSums
<1>5. CASE Crash
  BY <1>5, CrashSums
<1> QED  BY <1>1, <1>2, <1>3, <1>4, <1>5 DEF Next

\* The newest of the changes handed over is the one they lead to.
LEMMA SumsAddUp == DInv /\ SumInv => ChangesAddUp
<1> SUFFICES ASSUME DInv, SumInv, NEW m \in Messages \ torn, version[m].known PROVE AddsUp(m)
  BY DEF ChangesAddUp
<1>1. ASSUME NEW k \in Visible PROVE Value(k, Carried(k, m)) = Value(k, version[m].pts)
  <2>1. PICK c \in 0..LastPts : Top(k, m, c) /\ Value(k, c) = Value(k, version[m].pts)
    BY DEF SumInv, Sums
  <2>2. Carried(k, m) = Newest(Handed(k, m), first[m])
    BY DEF Carried, Handed, Has
  <2>3. \A u, w \in Handed(k, m) : u <= w /\ w <= u => u = w
    BY Constants DEF Handed
  <2>4. Newest(Handed(k, m), first[m]) = c
    BY <2>1, <2>3 DEF Newest, Top
  <2> QED  BY <2>1, <2>2, <2>4
<1>2. Value("edit", Carried("edit", m)) = Value("edit", version[m].pts)
      /\ Value("reaction", Carried("reaction", m)) = Value("reaction", version[m].pts)
  BY <1>1 DEF Visible
<1> QED  BY <1>2 DEF Value, AddsUp

\* For any number of updates of any messages, handled at once and in any order: what was
\* handed to the queue leads, newest last, from the message as first seen to its stored
\* version, unless a crash or an exception tore an update apart
\* (routing/owner_updates.py, _read_decide_and_commit).
THEOREM HandedOverAddsUp == Spec => []ChangesAddUp
<1> DEFINE All == DInv /\ LInv /\ OnQueue /\ SumInv
<1>1. Init => All
  BY StartsDurable, StartsSums, Initially DEF Init
<1>2. All /\ [Next]_vars => All'
  BY KeepsDurable, KeepsLock, QueueStep, KeepsSums
<1>3. All => ChangesAddUp
  BY SumsAddUp
<1> QED  BY <1>1, <1>2, <1>3, PTL DEF Spec

-----------------------------------------------------------------------------
(* What MAX shows.  Of a message whose attempts were all made under the lock, MAX   *)
(* shows the update being read as far as its changes were made, and the stored      *)
(* version otherwise: nobody else is at a job of it.                                *)

\* Who is at a job is alone at it, and it is in the state the attempt left it in;
\* whatever the worker takes up is left to it.
AtJob(t) == Carries(t) /\ Of(task[t].on) \notin left =>
              job[InHand(t)] = IF task[t].pc = "attempting" THEN "pending" ELSE "inflight"
Alone == \A s, t \in Tasks : Carries(s) /\ Carries(t) /\ InHand(s) = InHand(t) => s = t
WorkerLeft == worker.pc # "idle" => Of(worker.job[2]) \in left
HandInv == (\A t \in Tasks : AtJob(t)) /\ Alone /\ WorkerLeft

\* A deletion that was handed over took the message away, or is just being made.
Deletes == \A u \in Updates : Has("delete", u) /\ Of(u) \notin left =>
             \/ shown[Of(u)].deleted
             \/ \E t \in Tasks : Carries(t) /\ InHand(t) = <<"delete", u>>

\* A message with nothing against it, and who has made its change of a kind to it.
Plain(m) == /\ m \notin torn \cup left /\ first[m] = 0 /\ ~shown[m].deleted
            /\ \A u \in Updates : Of(u) = m => ~Has("delete", u)
Made(t, m, k) == ReadsFor(t, m) /\ Has(k, task[t].on) /\ ~Awaits(t, k)
Seen(k, m) == IF k = "edit" THEN shown[m].text ELSE shown[m].reaction
Tells(m) == \A k \in Visible :
              /\ \A t \in Tasks : Made(t, m, k) => Value(k, Seen(k, m)) = Value(k, task[t].on)
              /\ (\A t \in Tasks : ~Made(t, m, k)) =>
                   Value(k, Seen(k, m)) = Value(k, version[m].pts)

ShownTyped == shown \in [Messages -> [text : 0..LastPts, reaction : 0..LastPts,
                                      deleted : BOOLEAN]]
ToldInv == ShownTyped /\ HandInv /\ Deletes /\ \A m \in Messages : Plain(m) => Tells(m)

\* The job in a task's hand is of its update.
LEMMA CarriesWhat ==
  ASSUME DInv, SumInv, NEW t \in Tasks, Carries(t)
  PROVE  /\ task[t].on \in Updates /\ Of(task[t].on) \in Messages
         /\ task[t].pc \in Inside /\ task[t].todo # << >>
         /\ InHand(t) \in Effects /\ InHand(t)[2] = task[t].on
         /\ InHand(t)[1] = Head(task[t].todo)
         /\ Reads(t) => InHand(t)[1] \in Visible
         /\ ~Reads(t) => InHand(t) = <<"delete", task[t].on>>
<1>1. task[t].pc \in Inside /\ task[t].todo # << >>
  BY DEF Carries, Inside, DInv, Sound
<1> QED  BY <1>1, AtAnEffect

\* What a request leaves of a message: deleted, it stays so, and others are not touched.
LEMMA AppliedTo ==
  ASSUME ShownTyped, NEW e \in Effects
  PROVE  /\ Applied(e) \in [Messages -> [text : 0..LastPts, reaction : 0..LastPts,
                                         deleted : BOOLEAN]]
         /\ \A m \in Messages : /\ m # Of(e[2]) => Applied(e)[m] = shown[m]
                                /\ shown[m].deleted => Applied(e)[m].deleted
         /\ LET was == shown[Of(e[2])]
                is == Applied(e)[Of(e[2])] IN
            /\ e[1] = "delete" => is.deleted
            /\ ~was.deleted /\ e[1] = "edit" =>
                 is.text = e[2] /\ is.reaction = was.reaction
            /\ ~was.deleted /\ e[1] = "reaction" =>
                 is.reaction = e[2] /\ is.text = was.text
<1> DEFINE m == Of(e[2])
           was == shown[m]
           is == IF was.deleted THEN was
                 ELSE CASE e[1] = "delete" -> [was EXCEPT !.deleted = TRUE]
                        [] e[1] = "edit" -> [was EXCEPT !.text = e[2]]
                        [] OTHER -> [was EXCEPT !.reaction = e[2]]
           Kept == [text : 0..LastPts, reaction : 0..LastPts, deleted : BOOLEAN]
<1>1. e[1] \in Kinds /\ e[2] \in Updates /\ e[2] \in 0..LastPts /\ m \in Messages
  <2>1. e[1] \in Kinds /\ e[2] \in Updates
    BY DEF Effects
  <2>2. e[2] \in 0..LastPts
    BY <2>1, Constants
  <2>3. Of(e[2]) \in Messages
    BY <2>1, Constants
  <2> QED  BY <2>1, <2>2, <2>3
<1>2. Applied(e) = [shown EXCEPT ![m] = is]
  BY DEF Applied
<1>3. was \in Kept /\ is \in Kept
  <2>1. was \in Kept
    BY <1>1 DEF ShownTyped
  <2>2. CASE was.deleted
    BY <2>1, <2>2
  <2>3. CASE ~was.deleted /\ e[1] = "delete"
    BY <2>1, <2>3
  <2>4. CASE ~was.deleted /\ e[1] = "edit"
    BY <1>1, <2>1, <2>4
  <2>5. CASE ~was.deleted /\ e[1] = "reaction"
    BY <1>1, <2>1, <2>5
  <2> QED  BY <1>1, <2>1, <2>2, <2>3, <2>4, <2>5
<1>4. /\ was.deleted => is.deleted
      /\ e[1] = "delete" => is.deleted
      /\ ~was.deleted /\ e[1] = "edit" => is.text = e[2] /\ is.reaction = was.reaction
      /\ ~was.deleted /\ e[1] = "reaction" => is.reaction = e[2] /\ is.text = was.text
  <2>1. was \in Kept
    BY <1>3
  <2> QED  BY <2>1
<1> HIDE DEF was, is, Kept
<1>5. Applied(e) \in [Messages -> Kept]
  BY <1>2, <1>3 DEF ShownTyped, Kept
<1>6. Applied(e)[m] = is /\ \A n \in Messages : n # m => Applied(e)[n] = shown[n]
  BY <1>1, <1>2 DEF ShownTyped
<1> QED  BY <1>1, <1>4, <1>5, <1>6 DEF was, Kept

-----------------------------------------------------------------------------
(* Alone at a job *)

\* A task a step does not touch, nor its job, unless it is left to the worker.
Minds(s) == /\ task'[s] = task[s]
            /\ Carries(s) /\ Of(task[s].on) \notin left' => job'[InHand(s)] = job[InHand(s)]

\* A step of one task, which lets go of its job or takes up one that nobody has.
LEMMA HandFrame ==
  ASSUME HandInv, WorkerLeft', left \subseteq left', NEW t \in Tasks,
         \A s \in Tasks : s # t => Minds(s),
         \/ Minds(t) \/ ~Carries(t)'
         \/ AtJob(t)' /\ \A s \in Tasks : s # t /\ Carries(s) => InHand(s) # InHand(t)'
  PROVE  HandInv'
<1>1. \A s \in Tasks : Minds(s) => AtJob(s)' /\ InHand(s)' = InHand(s) /\ (Carries(s)' <=> Carries(s))
  BY DEF HandInv, Minds, AtJob, Carries, InHand
<1>2. \A s \in Tasks : AtJob(s)'
  BY <1>1 DEF AtJob
<1>3. Alone'
  <2> SUFFICES ASSUME NEW s \in Tasks, NEW r \in Tasks, Carries(s)', Carries(r)',
                      InHand(s)' = InHand(r)'
               PROVE  s = r
    BY DEF Alone
  <2> QED  BY <1>1 DEF HandInv, Alone
<1> QED  BY <1>2, <1>3 DEF HandInv

\* The outcome of a request changes the job alone.
LEMMA OtherJobs ==
  ASSUME DInv, NEW d \in Effects, Requested(d)
  PROVE  /\ \A e \in Effects : e # d => job'[e] = job[e]
         /\ left \subseteq left' /\ (left' = left \/ Of(d[2]) \in left')
<1>1. job' = [job EXCEPT ![d] = "done"] \/ job' = [job EXCEPT ![d] = "pending"]
  BY DEF Requested
<1> QED  BY <1>1 DEF DInv, Typed, Requested

\* Every step keeps those at a job alone at it.
LEMMA HandStep ==
  ASSUME DInv, OnQueue, SumInv, HandInv, [Next]_vars
  PROVE  HandInv' /\ left \subseteq left'
<1>0. Drain \in Tasks /\ Updates \subseteq Tasks
  BY Constants
<1>1. ASSUME UNCHANGED <<job, worker, task, left>> PROVE HandInv' /\ left \subseteq left'
  <2>1. WorkerLeft' /\ \A s \in Tasks : Minds(s)
    BY <1>1 DEF HandInv, WorkerLeft, Minds
  <2> QED  BY <1>0, <1>1, <2>1, HandFrame
<1>2. ASSUME NEW t \in Tasks, UNCHANGED <<job, worker, left>>, ~Carries(t)',
             \A s \in Tasks : s # t => task'[s] = task[s]
      PROVE  HandInv' /\ left \subseteq left'
  <2>1. WorkerLeft' /\ \A s \in Tasks : s # t => Minds(s)
    BY <1>2 DEF HandInv, WorkerLeft, Minds
  <2> QED  BY <1>2, <2>1, HandFrame
<1>3. ASSUME NEW u \in Updates, Remember(u) \/ DrainNext(u)
      PROVE  HandInv' /\ left \subseteq left'
  <2>1. PICK t \in Tasks : Begin(t, u) /\ UNCHANGED <<job, worker, left>>
    BY <1>0, <1>3 DEF Remember, DrainNext, durable, history
  <2>2. /\ \A s \in Tasks : s # t => task'[s] = task[s]
        /\ task'[t].pc \in {"deriving", "entering"}
    BY <2>1 DEF Begin, DInv, Typed
  <2> QED  BY <1>2, <2>1, <2>2 DEF Carries
<1>4. ASSUME NEW t \in Tasks,
             \/ AskForLock(t) \/ ReadState(t) \/ Advance(t) \/ Account(t) \/ Drop(t) \/ Raises(t)
      PROVE  HandInv' /\ left \subseteq left'
  <2>1. UNCHANGED <<job, worker, left>>
    BY <1>4 DEF AskForLock, ReadState, Advance, Account, Drop, Raises, durable, history
  <2>2. /\ \A s \in Tasks : s # t => task'[s] = task[s]
        /\ task'[t].pc \in {"locked", "accounting", "deriving", "dropping", "idle"}
    <3>1. CASE ReadState(t)
      BY <3>1 DEF ReadState, Goes, DInv, Typed
    <3>2. CASE AskForLock(t) \/ Advance(t) \/ Account(t) \/ Drop(t) \/ Raises(t)
      <4>1. Goes(t, "locked") \/ Goes(t, "accounting") \/ Goes(t, "dropping") \/ Ends(t)
        BY <3>2 DEF AskForLock, Advance, Account, Drop, Raises
      <4> QED  BY <4>1, TaskMoves DEF DInv
    <3> QED  BY <1>4, <3>1, <3>2
  <2> QED  BY <1>2, <2>1, <2>2 DEF Carries
<1>5. ASSUME NEW t \in Tasks, Submit(t) PROVE HandInv' /\ left \subseteq left'
  <2>1. InHand(t) \in Effects /\ UNCHANGED <<worker, left>>
    BY <1>5, InHandTyped DEF Submit, DInv, Sound, history
  <2>2. CASE /\ job[InHand(t)] = "none" /\ job' = [job EXCEPT ![InHand(t)] = "pending"]
             /\ Goes(t, "attempting")
    <3>1. /\ \A s \in Tasks : s # t => task'[s] = task[s]
          /\ task'[t].pc = "attempting" /\ InHand(t)' = InHand(t)
      BY <2>2, TaskMoves DEF DInv, InHand
    <3>2. \A s \in Tasks : s # t /\ Carries(s) => InHand(s) # InHand(t)
      BY <2>2 DEF OnQueue
    <3>3. \A s \in Tasks : s # t => Minds(s)
      BY <2>1, <2>2, <3>1, <3>2 DEF Minds, DInv, Typed
    <3>4. AtJob(t)'
      BY <2>1, <2>2, <3>1 DEF AtJob, DInv, Typed
    <3>5. WorkerLeft'
      BY <2>1 DEF HandInv, WorkerLeft
    <3> QED  BY <2>1, <3>1, <3>2, <3>3, <3>4, <3>5, HandFrame
  <2>3. CASE Turns(t, "deriving") /\ UNCHANGED job
    BY <1>2, <2>1, <2>3, TaskMoves DEF DInv, Carries
  <2> QED  BY <1>5, <2>2, <2>3 DEF Submit
<1>6. ASSUME NEW t \in Tasks, Carries(t), UNCHANGED worker, left \subseteq left',
             \A e \in Effects : e # InHand(t) => job'[e] = job[e],
             \/ Turns(t, "deriving")
             \/ Goes(t, "requesting") /\ job' = [job EXCEPT ![InHand(t)] = "inflight"]
      PROVE  HandInv' /\ left \subseteq left'
  <2>1. InHand(t) \in Effects /\ \A s \in Tasks : Carries(s) => InHand(s) \in Effects
    BY <1>6, CarriesWhat
  <2>2. \A s \in Tasks : s # t => task'[s] = task[s]
    BY <1>6, TaskMoves DEF DInv
  <2>3. \A s \in Tasks : s # t /\ Carries(s) => InHand(s) # InHand(t)
    BY <1>6 DEF HandInv, Alone
  <2>4. \A s \in Tasks : s # t => Minds(s)
    BY <1>6, <2>1, <2>2, <2>3 DEF Minds
  <2>5. WorkerLeft'
    BY <1>6 DEF HandInv, WorkerLeft
  <2>6. CASE Turns(t, "deriving")
    <3>1. ~Carries(t)'
      BY <2>6, TaskMoves DEF DInv, Carries
    <3> QED  BY <1>6, <2>4, <2>5, <3>1, HandFrame
  <2>7. CASE Goes(t, "requesting") /\ job' = [job EXCEPT ![InHand(t)] = "inflight"]
    <3>1. task'[t].pc = "requesting" /\ InHand(t)' = InHand(t)
      BY <2>7, TaskMoves DEF DInv, InHand
    <3>2. AtJob(t)'
      BY <2>1, <2>7, <3>1 DEF AtJob, DInv, Typed
    <3> QED  BY <1>6, <2>3, <2>4, <2>5, <3>1, <3>2, HandFrame
  <2> QED  BY <1>6, <2>6, <2>7
<1>7. ASSUME NEW t \in Tasks, Attempt(t) PROVE HandInv' /\ left \subseteq left'
  <2>1. Carries(t) /\ UNCHANGED <<worker, left>>
    BY <1>7 DEF Attempt, Carries, history
  <2>2. /\ \A e \in Effects : e # InHand(t) => job'[e] = job[e]
        /\ \/ Turns(t, "deriving")
           \/ Goes(t, "requesting") /\ job' = [job EXCEPT ![InHand(t)] = "inflight"]
    BY <1>7 DEF Attempt, DInv, Typed
  <2> QED  BY <1>6, <2>1, <2>2
<1>8. ASSUME NEW t \in Tasks, Request(t) PROVE HandInv' /\ left \subseteq left'
  <2>1. /\ Carries(t) /\ UNCHANGED worker /\ Requested(InHand(t))
        /\ Turns(t, "deriving")
    BY <1>8 DEF Request, Carries
  <2>2. /\ \A e \in Effects : e # InHand(t) => job'[e] = job[e]
        /\ left \subseteq left'
    BY <2>1, CarriesWhat, OtherJobs
  <2> QED  BY <1>6, <2>1, <2>2
<1>9. CASE Working
  <2>1. PICK d \in Effects : /\ \A e \in Effects : e # d => job'[e] = job[e]
                             /\ Of(d[2]) \in left' /\ left \subseteq left'
                             /\ worker'.pc # "idle" => worker'.job = d
                             /\ UNCHANGED task
    <3>1. ASSUME NEW d \in Effects, WorkerClaims(d)
          PROVE  /\ \A e \in Effects : e # d => job'[e] = job[e]
                 /\ Of(d[2]) \in left' /\ left \subseteq left'
                 /\ worker'.pc # "idle" => worker'.job = d
                 /\ UNCHANGED task
      BY <3>1 DEF WorkerClaims, DInv, Typed
    <3>2. worker.pc # "idle" => worker.job \in Effects /\ Of(worker.job[2]) \in left
      BY DEF DInv, Typed, HandInv, WorkerLeft
    <3>3. CASE WorkerResolves
      <4>1. worker' = [pc |-> "idle", job |-> NoJob] \/ worker' = [worker EXCEPT !.pc = "requesting"]
        BY <3>3 DEF WorkerResolves
      <4>2. worker'.pc # "idle" => worker'.job = worker.job
        BY <3>3, <4>1 DEF DInv, Typed
      <4>3. \A e \in Effects : e # worker.job => job'[e] = job[e]
        BY <3>3 DEF WorkerResolves, DInv, Typed
      <4> QED  BY <3>2, <3>3, <4>2, <4>3 DEF WorkerResolves, history
    <3>4. CASE WorkerRequests
      <4>1. worker.pc # "idle" /\ Requested(worker.job) /\ worker'.pc = "idle" /\ UNCHANGED task
        BY <3>4 DEF WorkerRequests
      <4>2. \A e \in Effects : e # worker.job => job'[e] = job[e]
        BY <3>2, <4>1, OtherJobs
      <4>3. left \subseteq left'
        BY <3>2, <4>1, OtherJobs
      <4> QED  BY <3>2, <4>1, <4>2, <4>3
    <3> QED  BY <1>9, <3>1, <3>3, <3>4 DEF Working
  <2>2. WorkerLeft'
    BY <2>1 DEF WorkerLeft
  <2>3. \A s \in Tasks : Minds(s)
    BY <2>1, CarriesWhat DEF Minds
  <2> QED  BY <1>0, <2>1, <2>2, <2>3, HandFrame
<1>10. CASE Crash
  <2>1. \A t \in Tasks : ~Carries(t)'
    BY <1>10 DEF Crash, Carries, IdleTask
  <2> QED  BY <1>10, <2>1 DEF Crash, HandInv, AtJob, Alone, WorkerLeft
<1>11. CASE UNCHANGED vars \/ ClaimDue \/ (\E u \in Updates : Time(u))
            \/ (\E m \in Messages : SeedBaseline(m)) \/ \E t \in Tasks : LockGranted(t)
  BY <1>1, <1>11 DEF vars, durable, history, ClaimDue, Time, BecomesDue, LeaseLapses,
                     SeedBaseline, LockGranted
<1> QED  BY <1>3, <1>4, <1>5, <1>7, <1>8, <1>9, <1>10, <1>11 DEF Next, Steps, Draining

-----------------------------------------------------------------------------
(* What a step may do to what MAX shows, to the queue, to a version and to a task *)

\* MAX changes a message only where a task requests it, or where it was left to the
\* worker; and what is deleted stays so.
LEMMA ShownStep ==
  ASSUME DInv, OnQueue, SumInv, HandInv, ShownTyped, [Next]_vars
  PROVE  /\ ShownTyped'
         /\ \A m \in Messages : shown[m].deleted => shown'[m].deleted
         /\ \A m \in Messages \ left' :
              \/ shown'[m] = shown[m]
              \/ \E t \in Tasks : Request(t) /\ Of(task[t].on) = m
<1>1. ASSUME UNCHANGED shown
      PROVE  /\ ShownTyped'
             /\ \A m \in Messages : shown[m].deleted => shown'[m].deleted
             /\ \A m \in Messages : shown'[m] = shown[m]
  BY <1>1 DEF ShownTyped
<1>2. ASSUME NEW e \in Effects, shown' \in {shown, Applied(e)}
      PROVE  /\ ShownTyped'
             /\ \A m \in Messages : shown[m].deleted => shown'[m].deleted
             /\ \A m \in Messages : m # Of(e[2]) => shown'[m] = shown[m]
  BY <1>2, AppliedTo DEF ShownTyped
<1>3. left \subseteq left'
  BY HandStep
<1>4. ASSUME NEW t \in Tasks, Request(t) PROVE shown' \in {shown, Applied(InHand(t))}
                                               /\ InHand(t) \in Effects /\ InHand(t)[2] = task[t].on
  <2>1. shown' \in {shown, Applied(InHand(t))} /\ Carries(t)
    BY <1>4 DEF Request, Requested, Carries
  <2> QED  BY <2>1, CarriesWhat
<1>5. CASE WorkerRequests
  <2>1. worker.job \in Effects /\ Of(worker.job[2]) \in left'
    BY <1>3, <1>5 DEF WorkerRequests, DInv, Typed, HandInv, WorkerLeft
  <2>2. shown' \in {shown, Applied(worker.job)}
    BY <1>5 DEF WorkerRequests, Requested
  <2> QED  BY <1>2, <2>1, <2>2
<1>6. CASE Crash
  <2>1. CASE UNCHANGED shown
    BY <1>1, <2>1
  <2>2. ASSUME NEW e \in UnderWay, shown' = Applied(e)
        PROVE  e \in Effects /\ Of(e[2]) \in left'
    <3>1. CASE worker.pc = "requesting" /\ e = worker.job
      BY <1>3, <3>1 DEF DInv, Typed, HandInv, WorkerLeft
    <3>2. ASSUME NEW t \in Tasks, task[t].pc = "requesting", e = InHand(t)
          PROVE  e \in Effects /\ Of(e[2]) \in left'
      <4>1. Carries(t) /\ e \in Effects /\ e[2] = task[t].on
        BY <3>2, CarriesWhat DEF Carries
      <4>2. Of(e[2]) \in left \/ job[e] = "inflight"
        BY <3>2, <4>1 DEF HandInv, AtJob
      <4> QED  BY <1>3, <1>6, <4>1, <4>2 DEF Crash
    <3> QED  BY <3>1, <3>2 DEF UnderWay
  <2> QED  BY <1>2, <1>6, <2>1, <2>2 DEF Crash
<1>7. CASE UNCHANGED shown
  BY <1>1, <1>7
<1>8. UNCHANGED shown \/ (\E t \in Tasks : Request(t)) \/ WorkerRequests \/ Crash
  BY DEF Next, Steps, Draining, Working, SeedBaseline, Remember, Time, BecomesDue, LeaseLapses,
         AskForLock, LockGranted, ReadState, Submit, Attempt, Advance, Account, Drop, Raises,
         ClaimDue, DrainNext, WorkerClaims, WorkerResolves, vars, durable
<1> QED  BY <1>2, <1>4, <1>5, <1>6, <1>7, <1>8

\* A job that is new was handed over by a task, which is at it.
LEMMA NewJobs ==
  ASSUME DInv, OnQueue, [Next]_vars, NEW e \in Effects, job[e] = "none", job'[e] # "none"
  PROVE  \E t \in Tasks : Submit(t) /\ InHand(t) = e /\ Goes(t, "attempting")
<1>1. ASSUME NEW t \in Tasks, Submit(t) PROVE InHand(t) = e /\ Goes(t, "attempting")
  BY <1>1 DEF Submit, DInv, Typed
<1>2. ASSUME NEW t \in Tasks, Attempt(t) \/ Request(t) PROVE FALSE
  <2>1. Carries(t) /\ InHand(t) \in Effects
    BY <1>2, InHandTyped DEF Attempt, Request, Carries, DInv, Sound
  <2> QED  BY <1>2, <2>1, RequestedJobs DEF Attempt, Request, OnQueue, DInv, Typed
<1>3. ~Working
  BY WorkerJobs DEF OnQueue
<1>4. ~Crash
  BY DEF Crash
<1>5. (\E t \in Tasks : Submit(t)) \/ (\E t \in Tasks : Attempt(t) \/ Request(t)) \/ Working
      \/ Crash \/ UNCHANGED job
  BY DEF Next, Steps, Draining, SeedBaseline, Remember, Time, BecomesDue, LeaseLapses,
         AskForLock, LockGranted, ReadState, Advance, Account, Drop, Raises,
         ClaimDue, DrainNext, vars, durable
<1> QED  BY <1>1, <1>2, <1>3, <1>4, <1>5

\* A task is moved by its own steps, by a crash, or where it begins.
LEMMA WhoMoves ==
  ASSUME DInv, [Next]_vars, NEW t \in Tasks
  PROVE  \/ task'[t] = task[t] \/ Crash \/ Steps(t) \/ Raises(t)
         \/ task[t].pc = "idle"
<1>1. ASSUME NEW s \in Tasks, Steps(s) \/ Raises(s), s # t PROVE task'[t] = task[t]
  <2>1. CASE ReadState(s)
    BY <1>1, <2>1 DEF ReadState, Goes, DInv, Typed
  <2>2. CASE LockGranted(s)
    BY <2>2 DEF LockGranted
  <2>3. CASE ~ReadState(s) /\ ~LockGranted(s)
    <3>1. \E pc : Goes(s, pc) \/ Turns(s, pc) \/ Ends(s)
      BY <1>1, <2>3 DEF Steps, AskForLock, Submit, Attempt, Request, Advance, Account, Drop, Raises
    <3> QED  BY <1>1, <3>1, TaskMoves DEF DInv
  <2> QED  BY <2>1, <2>2, <2>3
<1>2. ASSUME NEW s \in Tasks, NEW u \in Updates, Begin(s, u), task[s].pc = "idle"
      PROVE  task'[t] = task[t] \/ task[t].pc = "idle"
  BY <1>2 DEF Begin, DInv, Typed
<1>3. ASSUME NEW u \in Updates, Remember(u) \/ DrainNext(u)
      PROVE  task'[t] = task[t] \/ task[t].pc = "idle"
  BY <1>2, <1>3, Constants DEF Remember, DrainNext
<1>4. CASE UNCHANGED task
  BY <1>4
<1>5. \/ Crash \/ UNCHANGED task \/ (\E s \in Tasks : Steps(s) \/ Raises(s))
      \/ \E u \in Updates : Remember(u) \/ DrainNext(u)
  BY DEF Next, Draining, Working, SeedBaseline, Time, BecomesDue, LeaseLapses, ClaimDue,
         WorkerClaims, WorkerResolves, WorkerRequests, vars
<1> QED  BY <1>1, <1>3, <1>4, <1>5

\* A version moves only where a reader of the message moves it, to what it read.
LEMMA VersionMoves ==
  ASSUME DInv, SumInv, [Next]_vars, NEW m \in Messages
  PROVE  \/ first'[m] = first[m] /\ version'[m].pts = version[m].pts
         \/ \E t \in Tasks : /\ Advance(t) /\ ReadsFor(t, m)
                             /\ first'[m] = IF version[m].known THEN first[m] ELSE task[t].on
<1>1. ASSUME NEW l \in Messages, SeedBaseline(l)
      PROVE  first'[m] = first[m] /\ version'[m].pts = version[m].pts
  BY <1>1 DEF SeedBaseline, history, DInv, Typed
<1>2. ASSUME NEW t \in Tasks, Advance(t)
      PROVE  \/ first'[m] = first[m] /\ version'[m].pts = version[m].pts
             \/ /\ ReadsFor(t, m)
                /\ first'[m] = IF version[m].known THEN first[m] ELSE task[t].on
  <2>1. Of(task[t].on) \in Messages /\ task[t].pc \in Inside
    BY <1>2, OnUpdate DEF Advance, Inside
  <2> QED  BY <1>2, <2>1 DEF Advance, ReadsFor, Reads, DInv, Typed, SumInv
<1>3. \/ (\E l \in Messages : SeedBaseline(l)) \/ (\E t \in Tasks : Advance(t))
      \/ UNCHANGED <<version, first>>
  BY DEF Next, Steps, Draining, Working, Remember, Time, BecomesDue, LeaseLapses,
         AskForLock, LockGranted, ReadState, Submit, Attempt, Request, Account, Drop, Raises,
         ClaimDue, DrainNext, WorkerClaims, WorkerResolves, WorkerRequests, Crash, vars,
         durable, history
<1> QED  BY <1>1, <1>2, <1>3

\* What is torn stays torn.
LEMMA TornStays == [Next]_vars => torn \subseteq torn'
<1>1. (\E S : Tears(S)) => torn \subseteq torn'
  BY DEF Tears
<1>2. [Next]_vars => (\E S : Tears(S)) \/ UNCHANGED torn
  BY DEF Next, Steps, Draining, Working, SeedBaseline, Remember, Time, BecomesDue, LeaseLapses,
         AskForLock, LockGranted, ReadState, Submit, Attempt, Request, Advance, Account, Drop,
         Raises, ClaimDue, DrainNext, WorkerClaims, WorkerResolves, WorkerRequests, Crash, vars,
         history
<1> QED  BY <1>1, <1>2

\* A deletion handed over is carried until MAX has it.
LEMMA DeletesStep ==
  ASSUME DInv, OnQueue, SumInv, HandInv, ShownTyped, Deletes, [Next]_vars
  PROVE  Deletes'
<1> SUFFICES ASSUME NEW u \in Updates, Has("delete", u)', Of(u) \notin left'
             PROVE  \/ shown'[Of(u)].deleted
                    \/ \E t \in Tasks : Carries(t)' /\ InHand(t)' = <<"delete", u>>
  BY DEF Deletes
<1> DEFINE e == <<"delete", u>>
<1>1. Of(u) \in Messages /\ Of(u) \notin left /\ e \in Effects
  BY HandStep, Constants
<1>2. CASE shown[Of(u)].deleted
  BY <1>1, <1>2, ShownStep
<1>3. CASE ~Has("delete", u)
  <2>1. PICK t \in Tasks : InHand(t) = e /\ Goes(t, "attempting")
    BY <1>1, <1>3, NewJobs DEF Has
  <2>2. Carries(t)' /\ InHand(t)' = e
    BY <2>1, TaskMoves DEF DInv, Carries, InHand
  <2> QED  BY <2>2
<1>4. ASSUME NEW t \in Tasks, Carries(t), InHand(t) = e
      PROVE  shown'[Of(u)].deleted \/ (Carries(t)' /\ InHand(t)' = e)
  <2>1. task[t].on = u /\ e[1] = "delete" /\ e[2] = u
    BY <1>4, CarriesWhat
  <2>2. \/ task'[t] = task[t] \/ Crash \/ Attempt(t) \/ Request(t)
    BY <1>4, WhoMoves DEF Steps, Raises, Carries, AskForLock, LockGranted, ReadState, Submit,
                          Advance, Account, Drop
  <2>3. CASE task'[t] = task[t]
    BY <1>4, <2>3 DEF Carries, InHand
  <2>4. CASE Crash
    <3>1. job[e] \in {"pending", "inflight"}
      BY <1>1, <1>4, <2>1 DEF HandInv, AtJob
    <3> QED  BY <1>1, <2>1, <2>4, <3>1 DEF Crash
  <2>5. CASE Attempt(t)
    <3>1. job[e] = "pending" /\ ~Overtaken(e)
      BY <1>1, <1>4, <2>1, <2>5 DEF HandInv, AtJob, Attempt, Overtaken
    <3>2. Goes(t, "requesting")
      BY <1>4, <2>5, <3>1 DEF Attempt
    <3> QED  BY <1>4, <3>2, TaskMoves DEF DInv, Carries, InHand
  <2>6. CASE Request(t)
    <3>1. Requested(e)
      BY <1>4, <2>6 DEF Request
    <3>2. shown' = Applied(e)
      BY <2>1, <3>1 DEF Requested
    <3> QED  BY <1>1, <2>1, <3>2, AppliedTo
  <2> QED  BY <2>2, <2>3, <2>4, <2>5, <2>6
<1> QED  BY <1>1, <1>2, <1>3, <1>4 DEF Deletes

\* A message with nothing against it had nothing against it before.
LEMMA PlainBefore ==
  ASSUME DInv, OnQueue, SumInv, HandInv, ShownTyped, [Next]_vars, NEW m \in Messages, Plain(m)'
  PROVE  /\ Plain(m) /\ m \notin torn' /\ m \notin left'
         /\ first'[m] = 0 /\ ~shown'[m].deleted
<1>1. m \notin torn' /\ m \notin left' /\ first'[m] = 0 /\ ~shown'[m].deleted
  BY DEF Plain
<1>2. m \notin torn /\ m \notin left /\ ~shown[m].deleted
  BY <1>1, TornStays, HandStep, ShownStep
<1>3. first[m] = 0
  <2>1. ASSUME NEW t \in Tasks, ReadsFor(t, m) PROVE task[t].on # 0
    BY <2>1, OnUpdate DEF ReadsFor, Reads, Inside
  <2> QED  BY <1>1, <2>1, VersionMoves
<1>4. \A u \in Updates : Of(u) = m => ~Has("delete", u)
  BY QueueStep, Constants DEF Plain, Has, JobsStay
<1> QED  BY <1>1, <1>2, <1>3, <1>4 DEF Plain

-----------------------------------------------------------------------------
(* What MAX shows, step by step *)

\* A step that changes neither what MAX shows of a message, nor its version, nor who has
\* made a change to it.
LEMMA TellsFrame ==
  ASSUME NEW m \in Messages, Tells(m), shown'[m] = shown[m], version'[m].pts = version[m].pts,
         \A t \in Tasks, k \in Visible : /\ Made(t, m, k)' <=> Made(t, m, k)
                                         /\ Made(t, m, k) => task'[t].on = task[t].on
  PROVE  Tells(m)'
<1> SUFFICES ASSUME NEW k \in Visible
             PROVE  /\ \A t \in Tasks : Made(t, m, k)' => Value(k, Seen(k, m)') = Value(k, task'[t].on)
                    /\ (\A t \in Tasks : ~Made(t, m, k)') =>
                         Value(k, Seen(k, m)') = Value(k, version'[m].pts)
  BY DEF Tells, Value
<1>1. Seen(k, m)' = Seen(k, m)
  BY DEF Seen
<1>2. \A t \in Tasks : (Made(t, m, k)' <=> Made(t, m, k)) /\ (Made(t, m, k) => task'[t].on = task[t].on)
  OBVIOUS
<1> QED  BY <1>1, <1>2 DEF Tells

HasSame == \A k \in Visible, u \in Updates : Has(k, u)' <=> Has(k, u)

\* A task that stays has made what it had, if its jobs are the same.
LEMMA MadeStays ==
  ASSUME DInv, NEW t \in Tasks, NEW m \in Messages, NEW k \in Visible, task'[t] = task[t],
         \A u \in Updates : ReadsFor(t, m) /\ task[t].on = u => (Has(k, u)' <=> Has(k, u))
  PROVE  Made(t, m, k)' <=> Made(t, m, k)
<1>1. ReadsFor(t, m)' <=> ReadsFor(t, m)
  BY DEF ReadsFor, Reads
<1>2. ASSUME NEW u \in Updates, ReadsFor(t, m), task[t].on = u
      PROVE  Made(t, m, k)' <=> Made(t, m, k)
  <2>1. (Has(k, u)' <=> Has(k, u)) /\ (Awaits(t, k)' <=> Awaits(t, k)) /\ task'[t].on = u
    BY <1>2 DEF Awaits
  <2>2. Made(t, m, k) <=> Has(k, u) /\ ~Awaits(t, k)
    BY <1>2 DEF Made
  <2>3. Made(t, m, k)' <=> Has(k, u)' /\ ~Awaits(t, k)'
    BY <1>1, <1>2, <2>1 DEF Made, Has
  <2> QED  BY <2>1, <2>2, <2>3
<1>3. ReadsFor(t, m) => task[t].on \in Updates
  BY OnUpdate DEF ReadsFor, Reads, Inside
<1> QED  BY <1>1, <1>2, <1>3 DEF Made

\* A step of a task that has made nothing to the message, before or after.
LEMMA TellsBeside ==
  ASSUME DInv, NEW m \in Messages, Tells(m), shown'[m] = shown[m],
         version'[m].pts = version[m].pts, NEW t \in Tasks,
         \A k \in Visible : ~Made(t, m, k) /\ ~Made(t, m, k)',
         \A s \in Tasks : s # t => task'[s] = task[s],
         \A s \in Tasks, u \in Updates, k \in Visible :
             s # t /\ ReadsFor(s, m) /\ task[s].on = u => (Has(k, u)' <=> Has(k, u))
  PROVE  Tells(m)'
<1>1. \A s \in Tasks, k \in Visible : /\ Made(s, m, k)' <=> Made(s, m, k)
                                      /\ Made(s, m, k) => task'[s].on = task[s].on
  <2> TAKE s \in Tasks, k \in Visible
  <2>1. CASE s = t
    BY <2>1
  <2>2. CASE s # t
    BY <2>2, MadeStays
  <2> QED  BY <2>1, <2>2
<1> QED  BY <1>1, TellsFrame

\* Nothing is made to a message by a task that does not read it.
LEMMA NotMade ==
  ASSUME NEW t \in Tasks, NEW m \in Messages, ~ReadsFor(t, m), NEW k \in Visible
  PROVE  ~Made(t, m, k)
  BY DEF Made

\* Steps that concern neither readers nor jobs nor versions, and a task that only reads
\* its own update.
LEMMA TellsIdle ==
  ASSUME DInv, NEW m \in Messages, Tells(m), shown'[m] = shown[m],
         version'[m].pts = version[m].pts, HasSame, NEW t \in Tasks,
         \A s \in Tasks : s # t => task'[s] = task[s],
         UNCHANGED task \/ \A k \in Visible : ~Made(t, m, k) /\ ~Made(t, m, k)'
  PROVE  Tells(m)'
<1>1. CASE UNCHANGED task
  <2>1. \A s \in Tasks, k \in Visible : (Made(s, m, k)' <=> Made(s, m, k)) /\ task'[s].on = task[s].on
    BY <1>1, MadeStays DEF HasSame
  <2> QED  BY <2>1, TellsFrame
<1>2. CASE \A k \in Visible : ~Made(t, m, k) /\ ~Made(t, m, k)'
  BY <1>2, TellsBeside DEF HasSame
<1> QED  BY <1>1, <1>2

\* A reading has made nothing yet, and what it ends without having made was not made.
LEMMA ReadStateTells ==
  ASSUME DInv, LInv, SumInv, NEW m \in Messages, Plain(m), Tells(m), shown'[m] = shown[m],
         NEW t \in Tasks, ReadState(t)
  PROVE  Tells(m)'
<1>1. /\ task[t].pc = "locked" /\ Holds(t) /\ UNCHANGED <<version, job>>
      /\ \A s \in Tasks : s # t => task'[s] = task[s]
      /\ task'[t].pc = "accounting"
         \/ /\ ~version[Of(task[t].on)].known \/ task[t].on > version[Of(task[t].on)].pts
            /\ task'[t].on = task[t].on
  BY DEF ReadState, Goes, durable, DInv, Typed
<1>2. PICK u \in Updates : u = task[t].on
  BY <1>1, OnUpdate
<1>3. ASSUME NEW k \in Visible PROVE ~Made(t, m, k) /\ ~Made(t, m, k)'
  <2>1. ~Made(t, m, k)
    BY <1>1 DEF Made, ReadsFor, Reads, Inside
  <2>2. CASE task'[t].pc = "accounting"
    BY <2>1, <2>2 DEF Made, ReadsFor, Reads, Inside
  <2>3. CASE /\ ~version[Of(u)].known \/ u > version[Of(u)].pts
             /\ task'[t].on = u
    <3>1. Of(u) = m => ~Has(k, u)
      BY <1>1, <1>2, <2>3, Unbegun DEF Plain
    <3>2. Of(u) = m => ~Has(k, u)'
      BY <1>1, <3>1 DEF Has
    <3>3. Made(t, m, k)' => Of(u) = m /\ Has(k, u)'
      BY <2>3 DEF Made, ReadsFor, Has
    <3> QED  BY <2>1, <3>2, <3>3
  <2> QED  BY <1>1, <1>2, <2>2, <2>3
<1>4. HasSame
  BY <1>1 DEF HasSame, Has
<1> QED  BY <1>1, <1>3, <1>4, TellsIdle

\* Handing a change over does not make it.
LEMMA SubmitTells ==
  ASSUME DInv, LInv, SumInv, NEW m \in Messages, Plain(m), Plain(m)', Tells(m),
         shown'[m] = shown[m], NEW t \in Tasks, Submit(t)
  PROVE  Tells(m)'
<1> DEFINE e == InHand(t)
<1>1. /\ task[t].pc = "deriving" /\ task[t].todo # << >> /\ UNCHANGED version
      /\ \/ job[e] = "none" /\ job' = [job EXCEPT ![e] = "pending"] /\ Goes(t, "attempting")
         \/ job[e] # "none" /\ Turns(t, "deriving") /\ UNCHANGED job
  BY DEF Submit
<1>2. PICK u \in Updates : u = task[t].on
  BY <1>1, OnUpdate
<1>3. /\ e \in Effects /\ e = <<Head(task[t].todo), u>>
      /\ Reads(t) => task[t].todo \in Orders /\ Head(task[t].todo) \in Visible
      /\ ~Reads(t) => e = <<"delete", u>>
  BY <1>1, <1>2, AtAnEffect DEF Inside
<1> HIDE DEF e
<1>4. /\ \A s \in Tasks : s # t => task'[s] = task[s]
      /\ task'[t].on = u /\ task'[t].pc \in Inside
  BY <1>1, <1>2, TaskMoves DEF DInv, Inside
<1>5. \A k \in Visible, w \in Updates : <<k, w>> # e => (Has(k, w)' <=> Has(k, w))
  <2>1. \A d \in Effects : d # e => job'[d] = job[d]
    BY <1>1 DEF DInv, Typed
  <2> QED  BY <2>1, HasTyped DEF Has
<1>6. ReadsFor(t, m)' <=> ReadsFor(t, m)
  BY <1>1, <1>2, <1>4 DEF ReadsFor, Reads, Inside
<1>7. CASE ~ReadsFor(t, m)
  <2>1. \A k \in Visible : ~Made(t, m, k) /\ ~Made(t, m, k)'
    BY <1>6, <1>7 DEF Made
  <2>2. ASSUME NEW s \in Tasks, NEW w \in Updates, NEW k \in Visible,
               ReadsFor(s, m), task[s].on = w
        PROVE  Has(k, w)' <=> Has(k, w)
    <3>1. <<k, w>> # e
      <4>1. CASE Reads(t)
        BY <1>2, <1>3, <1>7, <2>2, <4>1 DEF ReadsFor
      <4>2. CASE ~Reads(t)
        BY <1>3, <4>2 DEF Visible
      <4> QED  BY <4>1, <4>2
    <3> QED  BY <1>5, <3>1
  <2> QED  BY <1>1, <1>4, <2>1, <2>2, TellsBeside
<1>8. CASE ReadsFor(t, m)
  <2>1. PICK l \in Visible : l = Head(task[t].todo) /\ e = <<l, u>>
    BY <1>3, <1>8 DEF ReadsFor
  <2>2. Awaits(t, l) /\ ~At(t, l) /\ ~Has(l, u)
    <3>1. Found(t, u) /\ Of(u) \notin torn
      BY <1>2, <1>8 DEF SumInv, Derives, ReadsFor, Plain
    <3>2. Awaits(t, l) /\ ~At(t, l)
      BY <1>1, <1>3, <1>8, <2>1, Lists DEF Awaits, At, Carries, ReadsFor
    <3> QED  BY <3>1, <3>2 DEF Found
  <2>3. Goes(t, "attempting")
    BY <1>1, <2>1, <2>2 DEF Has
  <2>4. ASSUME NEW k \in Visible PROVE Made(t, m, k)' <=> Made(t, m, k)
    <3>1. Awaits(t, k)' <=> Awaits(t, k)
      BY <2>3, TaskMoves DEF DInv, Awaits
    <3>2. Made(t, m, k)' <=> Has(k, u)' /\ ~Awaits(t, k)'
      BY <1>4, <1>6, <1>8 DEF Made, Has
    <3>3. Made(t, m, k) <=> Has(k, u) /\ ~Awaits(t, k)
      BY <1>2, <1>8 DEF Made
    <3>4. k # l => (Has(k, u)' <=> Has(k, u))
      BY <1>5, <2>1
    <3> QED  BY <2>2, <3>1, <3>2, <3>3, <3>4
  <2>5. ASSUME NEW s \in Tasks, s # t, NEW k \in Visible
        PROVE  (Made(s, m, k)' <=> Made(s, m, k)) /\ task'[s].on = task[s].on
    <3>1. ~ReadsFor(s, m)
      BY <1>8, <2>5, OneReader DEF ReadsFor, SumInv
    <3> QED  BY <1>4, <2>5, <3>1, MadeStays
  <2> QED  BY <1>1, <1>2, <1>4, <2>4, <2>5, TellsFrame
<1> QED  BY <1>7, <1>8

\* The attempt at a change of a reader claims its job: nothing has overtaken it.
LEMMA AttemptTells ==
  ASSUME DInv, LInv, OnQueue, SumInv, HandInv, NEW m \in Messages, Plain(m), Tells(m),
         shown'[m] = shown[m], NEW t \in Tasks, Attempt(t)
  PROVE  Tells(m)'
<1>1. /\ task[t].pc = "attempting" /\ UNCHANGED version /\ Carries(t)
      /\ Goes(t, "requesting") \/ Turns(t, "deriving")
  BY DEF Attempt, Carries
<1>2. PICK u \in Updates : u = task[t].on
  BY <1>1, OnUpdate
<1>3. /\ InHand(t) \in Effects /\ InHand(t)[2] = u /\ task[t].pc \in Inside
      /\ Reads(t) => InHand(t)[1] \in Visible
  BY <1>1, <1>2, CarriesWhat
<1>4. HasSame
  <2>1. \A e \in Effects : job'[e] # "none" <=> job[e] # "none"
    BY <1>1, <1>3 DEF Attempt, DInv, Typed, OnQueue
  <2> QED  BY <2>1, HasTyped DEF HasSame, Has
<1>5. /\ \A s \in Tasks : s # t => task'[s] = task[s]
      /\ task'[t].on = u /\ task'[t].pc \in Inside
  BY <1>1, <1>2, TaskMoves DEF DInv, Inside
<1>6. ReadsFor(t, m)' <=> ReadsFor(t, m)
  BY <1>2, <1>3, <1>5 DEF ReadsFor, Reads
<1>7. CASE ~ReadsFor(t, m)
  <2>1. \A k \in Visible : ~Made(t, m, k) /\ ~Made(t, m, k)'
    BY <1>6, <1>7 DEF Made
  <2> QED  BY <1>1, <1>4, <1>5, <2>1, TellsIdle
<1>8. CASE ReadsFor(t, m)
  <2>1. job[InHand(t)] = "pending"
    BY <1>1, <1>2, <1>8 DEF HandInv, AtJob, Plain, ReadsFor
  <2>2. ~Overtaken(InHand(t))
    <3>1. CASE InHand(t)[1] = "edit"
      BY <1>2, <1>3, <1>8, <3>1 DEF Overtaken, Plain, Has, ReadsFor
    <3>2. CASE InHand(t)[1] = "reaction"
      <4>1. u > version[m].pts /\ u \in Nat /\ version[m].pts \in Nat
        BY <1>2, <1>8, Ahead DEF SumInv, Derives, Found, ReadsFor
      <4> QED  BY <1>2, <1>3, <1>8, <3>2, <4>1 DEF Overtaken, ReadsFor
    <3> QED  BY <1>3, <1>8, <3>1, <3>2 DEF ReadsFor, Visible
  <2>3. Goes(t, "requesting")
    BY <2>1, <2>2 DEF Attempt
  <2>4. ASSUME NEW k \in Visible PROVE Made(t, m, k)' <=> Made(t, m, k)
    <3>1. Awaits(t, k)' <=> Awaits(t, k)
      BY <2>3, TaskMoves DEF DInv, Awaits
    <3>2. Made(t, m, k)' <=> Has(k, u)' /\ ~Awaits(t, k)'
      BY <1>5, <1>6, <1>8 DEF Made, Has
    <3> QED  BY <1>2, <1>4, <1>8, <3>1, <3>2 DEF Made, HasSame
  <2>5. \A s \in Tasks, k \in Visible : s # t => (Made(s, m, k)' <=> Made(s, m, k))
    BY <1>4, <1>5, MadeStays DEF HasSame
  <2> QED  BY <1>1, <1>2, <1>5, <2>4, <2>5, TellsFrame
<1> QED  BY <1>7, <1>8

\* The request makes the change it is for: what MAX shows of that kind is the update's.
LEMMA RequestTells ==
  ASSUME DInv, LInv, OnQueue, SumInv, HandInv, ShownTyped, NEW m \in Messages,
         Plain(m), Tells(m), m \notin left', ~shown'[m].deleted, NEW t \in Tasks, Request(t)
  PROVE  Tells(m)'
<1> DEFINE e == InHand(t)
<1>1. /\ task[t].pc = "requesting" /\ UNCHANGED version /\ Carries(t)
      /\ Requested(e) /\ Turns(t, "deriving")
  BY DEF Request, Carries
<1>2. PICK u \in Updates : u = task[t].on
  BY <1>1, OnUpdate
<1>3. /\ e \in Effects /\ e[2] = u /\ task[t].pc \in Inside /\ task[t].todo # << >>
      /\ e[1] = Head(task[t].todo) /\ Of(u) \in Messages
      /\ Reads(t) => e[1] \in Visible
      /\ ~Reads(t) => e[1] = "delete"
  BY <1>1, <1>2, CarriesWhat
<1>4. job[e] # "none" /\ HasSame
  <2>1. job[e] # "none"
    BY <1>1 DEF OnQueue
  <2>2. \A d \in Effects : job'[d] # "none" <=> job[d] # "none"
    BY <1>1, <1>3, <2>1, RequestedJobs
  <2> QED  BY <2>1, <2>2, HasTyped DEF HasSame, Has
<1>5. /\ \A s \in Tasks : s # t => task'[s] = task[s]
      /\ task'[t].on = u /\ task'[t].pc \in Inside /\ task'[t].todo = Tail(task[t].todo)
  BY <1>1, <1>2, TaskMoves DEF DInv, Inside
<1>6. ReadsFor(t, m)' <=> ReadsFor(t, m)
  BY <1>2, <1>3, <1>5 DEF ReadsFor, Reads
<1>7. shown' = Applied(e) \/ (shown' = shown /\ Of(u) \in left') \/ Of(u) \in left'
  BY <1>1, <1>3 DEF Requested
<1>8. CASE Of(u) # m
  <2>1. shown'[m] = shown[m]
    BY <1>1, <1>3, <1>8, AppliedTo DEF Requested
  <2>2. \A k \in Visible : ~Made(t, m, k) /\ ~Made(t, m, k)'
    BY <1>2, <1>6, <1>8 DEF Made, ReadsFor
  <2> QED  BY <1>1, <1>4, <1>5, <2>1, <2>2, TellsIdle
<1>9. CASE Of(u) = m
  <2>1. shown' = Applied(e)
    BY <1>7, <1>9
  <2>2. Reads(t)
    BY <1>3, <1>9, <2>1, AppliedTo
  <2>3. PICK l \in Visible : l = e[1]
    BY <1>3, <2>2
  <2>4. ReadsFor(t, m) /\ task[t].todo \in Orders
    BY <1>2, <1>3, <1>9, <2>2 DEF ReadsFor, SumInv, Placed
  <2>5. /\ Seen(l, m)' = u
        /\ \A k \in Visible : k # l => Seen(k, m)' = Seen(k, m)
    BY <1>3, <1>9, <2>1, <2>3, AppliedTo DEF Plain, Seen, Visible
  <2>6. Made(t, m, l)'
    <3>1. ~Member(l, Tail(task[t].todo))
      BY <1>3, <2>3, <2>4, Lists
    <3>2. Has(l, u)
      <4>1. e = <<l, u>>
        BY <1>3, <2>3 DEF Effects
      <4> QED  BY <1>4, <4>1 DEF Has
    <3>3. Has(l, u)'
      BY <1>4, <3>2 DEF HasSame
    <3> QED  BY <1>5, <1>6, <2>4, <3>1, <3>3 DEF Made, Awaits, Has
  <2>7. ASSUME NEW k \in Visible, k # l PROVE Made(t, m, k)' <=> Made(t, m, k)
    <3>1. Member(k, Tail(task[t].todo)) <=> Member(k, task[t].todo)
      BY <1>3, <2>3, <2>4, <2>7, Lists
    <3>2. Made(t, m, k)' <=> Has(k, u)' /\ ~Member(k, Tail(task[t].todo))
      BY <1>5, <1>6, <2>4 DEF Made, Awaits, Has
    <3>3. Made(t, m, k) <=> Has(k, u) /\ ~Member(k, task[t].todo)
      BY <1>2, <2>4 DEF Made, Awaits
    <3> QED  BY <1>4, <3>1, <3>2, <3>3 DEF HasSame
  <2>8. ASSUME NEW s \in Tasks, s # t, NEW k \in Visible PROVE ~Made(s, m, k) /\ ~Made(s, m, k)'
    <3>1. ~ReadsFor(s, m)
      BY <2>4, <2>8, OneReader DEF ReadsFor, SumInv
    <3>2. ~ReadsFor(s, m)'
      BY <1>5, <2>8, <3>1 DEF ReadsFor, Reads
    <3> QED  BY <3>1, <3>2 DEF Made
  <2>9. ASSUME NEW k \in Visible
        PROVE  /\ \A s \in Tasks : Made(s, m, k)' => Value(k, Seen(k, m)') = Value(k, task'[s].on)
               /\ (\A s \in Tasks : ~Made(s, m, k)') =>
                    Value(k, Seen(k, m)') = Value(k, version'[m].pts)
    <3>1. CASE k = l
      BY <1>5, <2>5, <2>6, <2>8, <3>1
    <3>2. CASE k # l
      <4>1. Seen(k, m)' = Seen(k, m)
        BY <2>5, <3>2
      <4>2. \A s \in Tasks : Made(s, m, k)' <=> Made(s, m, k)
        BY <2>7, <2>8, <3>2
      <4>3. \A s \in Tasks : task'[s].on = task[s].on
        BY <1>2, <1>5
      <4> QED  BY <1>1, <4>1, <4>2, <4>3 DEF Tells
    <3> QED  BY <3>1, <3>2
  <2> QED  BY <2>9 DEF Tells, Value
<1> QED  BY <1>8, <1>9

\* A version moves once what there was to change has been changed.
LEMMA AdvanceTells ==
  ASSUME DInv, LInv, SumInv, NEW m \in Messages, Plain(m), Tells(m), first'[m] = 0,
         NEW t \in Tasks, Advance(t)
  PROVE  Tells(m)'
<1>1. /\ task[t].pc = "deriving" /\ task[t].todo = << >> /\ Goes(t, "accounting")
      /\ UNCHANGED <<job, shown>>
  BY DEF Advance
<1>2. /\ \A s \in Tasks : s # t => task'[s] = task[s]
      /\ task'[t].pc = "accounting"
  BY <1>1, TaskMoves DEF DInv
<1>3. \A k \in Visible : ~Made(t, m, k)'
  BY <1>2 DEF Made, ReadsFor, Reads, Inside
<1>4. PICK u \in Updates : u = task[t].on /\ Of(u) \in Messages
  BY <1>1, OnUpdate
<1>5. HasSame
  BY <1>1 DEF HasSame, Has
<1>6. CASE ~ReadsFor(t, m)
  <2>1. version'[m].pts = version[m].pts
    BY <1>1, <1>4, <1>6 DEF Advance, ReadsFor, Reads, Inside, DInv, Typed
  <2>2. \A k \in Visible : ~Made(t, m, k)
    BY <1>6 DEF Made
  <2> QED  BY <1>1, <1>2, <1>3, <1>5, <2>1, <2>2, TellsIdle
<1>7. CASE ReadsFor(t, m)
  <2>1. /\ Update[u].family = "snapshot" /\ Of(u) = m /\ Found(t, u)
        /\ version' = [version EXCEPT ![m] = Advanced(@, u)]
        /\ first'[m] = IF version[m].known THEN first[m] ELSE u
    BY <1>4, <1>7 DEF Advance, ReadsFor, Reads, SumInv, Derives
  <2>2. version[m].known /\ version'[m].pts = u
    <3>1. u > version[m].pts /\ u \in Nat /\ version[m].pts \in Nat
      BY <2>1, Ahead DEF Found
    <3>2. Advanced(version[m], u) = [known |-> TRUE, pts |-> u]
      BY <3>1 DEF Advanced
    <3> QED  BY <2>1, <3>2 DEF DInv, Typed
  <2>3. \A k \in Visible : /\ ~Awaits(t, k)
                           /\ Has(k, u) <=> Value(k, u) # Value(k, version[m].pts)
    <3>1. \A k : ~Awaits(t, k)
      BY <1>1, Lists DEF Awaits
    <3> QED  BY <2>1, <2>2, <3>1 DEF Found, Plain
  <2>4. ASSUME NEW s \in Tasks, NEW k \in Visible
        PROVE  ~Made(s, m, k)' /\ (s # t => ~Made(s, m, k))
    <3>1. CASE s = t
      BY <1>3, <3>1
    <3>2. CASE s # t
      <4>1. ~ReadsFor(s, m)
        BY <1>7, <3>2, OneReader DEF ReadsFor, SumInv
      <4>2. ~ReadsFor(s, m)'
        BY <1>2, <3>2, <4>1 DEF ReadsFor, Reads
      <4> QED  BY <4>1, <4>2 DEF Made
    <3> QED  BY <3>1, <3>2
  <2>5. ASSUME NEW k \in Visible PROVE Value(k, Seen(k, m)) = Value(k, u)
    <3>1. CASE Has(k, u)
      <4>1. Made(t, m, k)
        BY <1>4, <1>7, <2>3, <3>1 DEF Made
      <4> QED  BY <1>4, <4>1 DEF Tells
    <3>2. CASE ~Has(k, u)
      <4>1. \A s \in Tasks : ~Made(s, m, k)
        BY <1>4, <2>4, <3>2 DEF Made
      <4> QED  BY <2>3, <3>2, <4>1 DEF Tells
    <3> QED  BY <3>1, <3>2
  <2>6. \A k \in Visible : Seen(k, m)' = Seen(k, m)
    BY <1>1 DEF Seen
  <2> QED  BY <2>2, <2>4, <2>5, <2>6 DEF Tells, Value
<1> QED  BY <1>6, <1>7

\* Who ends early without having torn the message has made nothing to it.
LEMMA EndsUnmade ==
  ASSUME DInv, SumInv, NEW m \in Messages, m \notin torn', NEW S \in SUBSET Tasks, Tears(S),
         NEW t \in S, NEW k \in Visible
  PROVE  ~Made(t, m, k)
<1>1. ReadsFor(t, m) => ~Has(k, task[t].on)
  BY TearsReaders DEF ReadsFor
<1> QED  BY <1>1 DEF Made

\* So an exception or a crash leaves what MAX shows at the stored version.
LEMMA EndTells ==
  ASSUME DInv, LInv, SumInv, NEW m \in Messages, Tells(m), m \notin torn',
         shown'[m] = shown[m], Crash \/ \E t \in Tasks : Raises(t)
  PROVE  Tells(m)'
<1>1. ASSUME NEW t \in Tasks, Raises(t) PROVE Tells(m)'
  <2>1. Tears({t}) /\ Ends(t) /\ UNCHANGED <<version, job>>
    BY <1>1 DEF Raises
  <2>2. (\A s \in Tasks : s # t => task'[s] = task[s]) /\ task'[t].pc = "idle"
    BY <2>1, TaskMoves DEF DInv
  <2>3. \A k \in Visible : ~Made(t, m, k) /\ ~Made(t, m, k)'
    <3>1. \A k \in Visible : ~Made(t, m, k)
      BY <2>1, EndsUnmade
    <3> QED  BY <2>2, <3>1 DEF Made, ReadsFor, Reads, Inside
  <2>4. HasSame
    BY <2>1 DEF HasSame, Has
  <2> QED  BY <2>1, <2>2, <2>3, <2>4, TellsIdle
<1>2. CASE Crash
  <2>1. Tears(Tasks) /\ task' = [t \in Tasks |-> IdleTask] /\ UNCHANGED version
    BY <1>2 DEF Crash
  <2>2. \A t \in Tasks, k \in Visible : ~Made(t, m, k) /\ ~Made(t, m, k)'
    <3>1. \A t \in Tasks, k \in Visible : ~Made(t, m, k)
      BY <2>1, EndsUnmade
    <3> QED  BY <2>1, <3>1 DEF Made, ReadsFor, Reads, Inside, IdleTask
  <2> QED  BY <2>1, <2>2, TellsFrame
<1> QED  BY <1>1, <1>2

\* Steps before the lock, after it, and beside the handlers: nothing is made.
LEMMA QuietTells ==
  ASSUME DInv, OnQueue, SumInv, NEW m \in Messages, Tells(m), shown'[m] = shown[m],
         \/ \E l \in Messages : SeedBaseline(l)
         \/ \E u \in Updates : Remember(u) \/ Time(u) \/ DrainNext(u)
         \/ ClaimDue \/ Working \/ UNCHANGED vars
         \/ \E t \in Tasks : AskForLock(t) \/ LockGranted(t) \/ Account(t) \/ Drop(t)
  PROVE  Tells(m)'
<1>0. Drain \in Tasks /\ Updates \subseteq Tasks
  BY Constants
<1>1. UNCHANGED job => HasSame
  BY DEF HasSame, Has
<1>2. ASSUME NEW l \in Messages, SeedBaseline(l) PROVE Tells(m)'
  <2>1. version'[m].pts = version[m].pts /\ UNCHANGED <<task, job>>
    BY <1>2 DEF SeedBaseline, DInv, Typed
  <2> QED  BY <1>0, <1>1, <2>1, TellsIdle
<1>3. ASSUME NEW u \in Updates, Remember(u) \/ DrainNext(u) PROVE Tells(m)'
  <2>1. PICK t \in Tasks : /\ Begin(t, u) /\ task[t].pc = "idle"
                           /\ UNCHANGED <<job, version>>
    BY <1>0, <1>3 DEF Remember, DrainNext, durable
  <2>2. /\ \A s \in Tasks : s # t => task'[s] = task[s]
        /\ \/ task'[t] = [pc |-> "deriving", on |-> u, todo |-> <<"delete">>]
              /\ Update[u].family = "delete"
           \/ task'[t] = [pc |-> "entering", on |-> u, todo |-> << >>]
    BY <2>1 DEF Begin, DInv, Typed
  <2>3. \A k \in Visible : ~Made(t, m, k) /\ ~Made(t, m, k)'
    BY <2>1, <2>2 DEF Made, ReadsFor, Reads, Inside
  <2> QED  BY <1>1, <2>1, <2>2, <2>3, TellsIdle
<1>4. ASSUME UNCHANGED <<task, version, job>> PROVE Tells(m)'
  BY <1>0, <1>1, <1>4, TellsIdle
<1>5. CASE ClaimDue \/ UNCHANGED vars \/ (\E u \in Updates : Time(u))
           \/ \E t \in Tasks : LockGranted(t)
  BY <1>4, <1>5 DEF ClaimDue, vars, durable, Time, BecomesDue, LeaseLapses, LockGranted
<1>6. CASE Working
  <2>1. HasSame
    BY <1>6, WorkerJobs, HasTyped DEF OnQueue, HasSame, Has
  <2>2. UNCHANGED <<task, version>>
    BY <1>6 DEF Working, WorkerClaims, WorkerResolves, WorkerRequests
  <2> QED  BY <1>0, <2>1, <2>2, TellsIdle
<1>7. ASSUME NEW t \in Tasks, AskForLock(t) \/ Account(t) \/ Drop(t) PROVE Tells(m)'
  <2>1. /\ task[t].pc \in {"entering", "accounting", "dropping"} /\ UNCHANGED <<version, job>>
        /\ Goes(t, "locked") \/ Goes(t, "dropping") \/ Ends(t)
    BY <1>7 DEF AskForLock, Account, Drop, durable
  <2>2. /\ \A s \in Tasks : s # t => task'[s] = task[s]
        /\ task'[t].pc \in {"locked", "dropping", "idle"}
    BY <2>1, TaskMoves DEF DInv
  <2>3. \A k \in Visible : ~Made(t, m, k) /\ ~Made(t, m, k)'
    BY <2>1, <2>2 DEF Made, ReadsFor, Reads, Inside
  <2> QED  BY <1>1, <2>1, <2>2, <2>3, TellsIdle
<1> QED  BY <1>2, <1>3, <1>5, <1>6, <1>7

\* Every step keeps what MAX shows in step with what was made.
LEMMA KeepsTold == DInv /\ LInv /\ OnQueue /\ SumInv /\ ToldInv /\ [Next]_vars => ToldInv'
<1> SUFFICES ASSUME DInv, LInv, OnQueue, SumInv, ToldInv, [Next]_vars PROVE ToldInv'
  OBVIOUS
<1>1. ShownTyped /\ HandInv /\ Deletes
  BY DEF ToldInv
<1>2. ShownTyped' /\ HandInv' /\ Deletes'
  BY <1>1, ShownStep, HandStep, DeletesStep
<1>3. ASSUME NEW m \in Messages, Plain(m)' PROVE Tells(m)'
  <2>1. /\ Plain(m) /\ m \notin torn' /\ m \notin left' /\ m \notin left
        /\ first'[m] = 0 /\ ~shown'[m].deleted
    BY <1>1, <1>3, PlainBefore DEF Plain
  <2>2. Tells(m)
    BY <2>1 DEF ToldInv
  <2>3. CASE \E t \in Tasks : Request(t)
    BY <1>1, <2>1, <2>2, <2>3, RequestTells
  <2>4. CASE ~\E t \in Tasks : Request(t)
    <3>1. shown'[m] = shown[m]
      BY <1>1, <2>1, <2>4, ShownStep
    <3>2. ASSUME NEW t \in Tasks, Steps(t) PROVE Tells(m)'
      BY <1>1, <1>3, <2>1, <2>2, <2>4, <3>1, <3>2, QuietTells, ReadStateTells, SubmitTells,
         AttemptTells, AdvanceTells DEF Steps
    <3>3. CASE Crash \/ \E t \in Tasks : Raises(t)
      BY <2>1, <2>2, <3>1, <3>3, EndTells
    <3>4. CASE \/ \E l \in Messages : SeedBaseline(l)
               \/ \E u \in Updates : Remember(u) \/ Time(u)
               \/ Draining \/ Working \/ UNCHANGED vars
      BY <2>2, <3>1, <3>4, QuietTells DEF Draining
    <3> QED  BY <3>2, <3>3, <3>4 DEF Next
  <2> QED  BY <2>3, <2>4
<1> QED  BY <1>2, <1>3 DEF ToldInv

\* Nothing is shown but baselines at first.
LEMMA StartsTold == Init => ToldInv
<1> SUFFICES ASSUME Init PROVE ToldInv
  OBVIOUS
<1>1. ShownTyped
  BY Constants DEF Init, ShownTyped
<1>2. \A t \in Tasks : ~Carries(t)
  BY DEF Init, IdleTask, Carries
<1>3. HandInv
  BY <1>2 DEF Init, HandInv, AtJob, Alone, WorkerLeft
<1>4. Deletes
  BY Constants DEF Init, Deletes, Has
<1>5. \A m \in Messages, k \in Visible : Seen(k, m) = 0 /\ version[m].pts = 0
  BY DEF Init, Seen
<1>6. \A t \in Tasks, m \in Messages, k \in Visible : ~Made(t, m, k)
  BY DEF Init, IdleTask, Made, ReadsFor, Reads, Inside
<1> QED  BY <1>1, <1>3, <1>4, <1>5, <1>6 DEF ToldInv, Tells

\* Of a message nobody is working on there is nobody who has made half a change.
LEMMA ToldIsShown == DInv /\ SumInv /\ ToldInv => ShownIsNewest
<1> SUFFICES ASSUME DInv, SumInv, ToldInv, NEW m \in Messages, Quiet(m), version[m].known,
                    first[m] = 0, ~shown[m].deleted
             PROVE  /\ Text(shown[m].text) = Text(version[m].pts)
                    /\ Reaction(shown[m].reaction) = Reaction(version[m].pts)
  BY DEF ShownIsNewest
<1>1. ASSUME NEW u \in Updates, Of(u) = m PROVE ~Has("delete", u)
  <2>1. ASSUME NEW t \in Tasks, Carries(t), InHand(t) = <<"delete", u>> PROVE FALSE
    <3>1. task[t].on = u /\ u # 0
      BY <2>1, CarriesWhat
    <3> QED  BY <1>1, <3>1 DEF Quiet
  <2> QED  BY <1>1, <2>1 DEF ToldInv, Deletes, Quiet
<1>2. Tells(m)
  BY <1>1 DEF ToldInv, Plain, Quiet
<1>3. \A t \in Tasks, k \in Visible : ~Made(t, m, k)
  BY OnUpdate DEF Made, ReadsFor, Reads, Inside, Quiet
<1>4. \A k \in Visible : Value(k, Seen(k, m)) = Value(k, version[m].pts)
  BY <1>2, <1>3 DEF Tells
<1>5. Value("edit", Seen("edit", m)) = Value("edit", version[m].pts)
      /\ Value("reaction", Seen("reaction", m)) = Value("reaction", version[m].pts)
  BY <1>4 DEF Visible
<1> QED  BY <1>5 DEF Value, Seen

\* For any number of updates, handled at once and in any order, with crashes, failed
\* requests and a worker beside the lock: of a message nobody is working on, all of whose
\* attempts were made under the lock, MAX shows the stored version
\* (routing/keyed_lock.py, module docstring).
THEOREM NewestIsShown == Spec => []ShownIsNewest
<1> DEFINE All == DInv /\ LInv /\ OnQueue /\ SumInv /\ ToldInv
<1>1. Init => All
  BY StartsDurable, StartsSums, StartsTold, Initially DEF Init
<1>2. All /\ [Next]_vars => All'
  BY KeepsDurable, KeepsLock, QueueStep, KeepsSums, KeepsTold
<1>3. All => ShownIsNewest
  BY ToldIsShown
<1> QED  BY <1>1, <1>2, <1>3, PTL DEF Spec
=============================================================================
