------------------------ MODULE TelegramInboxProofs ------------------------
(***************************************************************************)
(* What holds of the intake for any number of updates, any batch limit,    *)
(* any number of attempts and any number of crashes, stops and database    *)
(* errors: its types, that Telegram forgets nothing that is not on disk,   *)
(* that an update is handled once but for a cut, and that updates are      *)
(* handled in order.  None is inductive alone.  What Telegram is told      *)
(* comes from the offset in memory, which comes from the cursor of an      *)
(* earlier run or from a batch of which a part is still to be stored       *)
(* (IntakeInv).  What is handled twice depends on the lease and on where   *)
(* the drainer is with it (DrainInv).  The order depends on rows appearing *)
(* without gaps (OrderInv) and on the drainer holding every lease          *)
(* (TurnInv), which a runner started again in a living process breaks.     *)
(***************************************************************************)
EXTENDS TelegramInbox, TLAPS

\* Everything the offset can become is stored already, or is in the batch in hand.
IntakeInv ==
    /\ TypeOK
    /\ StoredBelow(confirmed)
    /\ StoredBelow(cursor)
    /\ StoredBelow(poller.offset)
    /\ poller.pc = "storing" =>
         \A u \in Updates : u < poller.top =>
             u \in poller.batch \/ row[u].state # "none"

\* Leases and marks keep the type of a row (claim_open, release, mark_done, mark_failed).
LEMMA RowsTyped ==
    ASSUME NEW r \in Row, NEW verdict
    PROVE  /\ Marked(r, verdict) \in Row
           /\ Requeued(r) \in Row
           /\ Stored(r) \in Row
           /\ [r EXCEPT !.state = "leased", !.lapsed = FALSE] \in Row
           /\ [r EXCEPT !.lapsed = TRUE] \in Row
<1>1. r.attempts \in Nat /\ r.attempts + 1 \in Nat
  BY DEF Row
<1>2. Marked(r, verdict) \in Row
  <2>1. CASE verdict = "done"
    BY <1>1, <2>1, Zenon DEF Row, Marked
  <2>2. CASE verdict = "failed"
    BY <1>1, <2>2, Zenon DEF Row, Marked
  <2>3. CASE verdict # "done" /\ verdict # "failed"
    BY <1>1, <2>3, Zenon DEF Row, Marked
  <2> QED BY <2>1, <2>2, <2>3
<1>3. Requeued(r) \in Row /\ Stored(r) \in Row
  BY DEF Row, Requeued, Stored
<1>4. [r EXCEPT !.state = "leased", !.lapsed = FALSE] \in Row
  BY DEF Row
<1>5. [r EXCEPT !.lapsed = TRUE] \in Row
  BY DEF Row
<1> QED BY <1>2, <1>3, <1>4, <1>5

\* No row is ever taken away (store, and every UPDATE of the table).
LEMMA RowsStay ==
    ASSUME NEW r \in Row, NEW verdict
    PROVE  /\ Marked(r, verdict).state # "none"
           /\ Stored(r).state # "none"
           /\ r.state # "none" => Requeued(r).state # "none"
  BY DEF Row, Marked, Requeued, Stored

\* The types of the initial state.
LEMMA InitTyped == Init => TypeOK
  BY TelegramInboxAssumption
  DEF Init, TypeOK, NoRow, Row, PollerOff, Poller, DrainerOff, Drainer, Updates

\* The types of the poller's steps.
LEMMA PollingTyped == TypeOK /\ Polling => TypeOK'
<1> SUFFICES ASSUME TypeOK, Polling PROVE TypeOK'
  OBVIOUS
<1> USE DEF TypeOK
<1>1. CASE ResumeOffset
  <2>1. poller' \in Poller
    BY <1>1 DEF ResumeOffset, Poller
  <2>2. faults' \in Nat
    BY <1>1 DEF ResumeOffset, DatabaseError, Fault
  <2> QED BY <1>1, <2>1, <2>2 DEF ResumeOffset, telegram, history
<1>2. CASE GetUpdates
  <2>1. confirmed' \in Nat
    BY <1>2 DEF GetUpdates, Larger, Poller
  <2>2. arrived + 1 \in Nat
    OBVIOUS
  <2>3. poller' \in Poller
    BY <1>2, <2>2 DEF GetUpdates, Poller
  <2> QED BY <1>2, <2>1, <2>3 DEF GetUpdates, history
<1>3. CASE TakeRaises
  <2>1. poller' \in Poller
    BY <1>3 DEF TakeRaises, Poller
  <2> QED BY <1>3, <2>1 DEF TakeRaises, DatabaseError, Fault, telegram, history
<1>4. CASE RememberOffset
  BY <1>4 DEF RememberOffset, DatabaseError, Fault, Larger, Poller, telegram, history
<1>5. ASSUME NEW u \in Updates, Take(u) PROVE TypeOK'
  <2>1. row' \in [Updates -> Row]
    BY <1>5, RowsTyped DEF Take
  <2>2. poller' \in Poller
    BY <1>5 DEF Take, Poller
  <2> QED BY <1>5, <2>1, <2>2 DEF Take, telegram, history
<1> QED BY <1>1, <1>2, <1>3, <1>4, <1>5 DEF Polling

\* The types of the drainer's steps.
LEMMA DrainingTyped == TypeOK /\ (Draining \/ MarkRaises \/ DrainTimesOut) => TypeOK'
<1> SUFFICES ASSUME TypeOK, Draining \/ MarkRaises \/ DrainTimesOut PROVE TypeOK'
  OBVIOUS
<1> USE DEF TypeOK
<1>1. \A S \in SUBSET Open : Lease(S) \in [Updates -> Row]
  BY RowsTyped DEF Lease
<1>2. CutOff => cut' \in [Updates -> Nat]
  BY DEF CutOff
<1>3. CASE ClaimOpen
  <2>1. PICK S \in SUBSET Open : row' = Lease(S) /\ drainer' = [drainer EXCEPT !.pc = "feeding", !.batch = S]
    BY <1>3 DEF ClaimOpen
  <2>2. drainer' \in Drainer
    BY <2>1 DEF Drainer, Open
  <2> QED BY <1>1, <1>3, <2>1, <2>2 DEF ClaimOpen, telegram, history
<1>4. CASE DrainerLeaves
  BY <1>4 DEF DrainerLeaves, DatabaseError, Fault, DrainerOff, Drainer, telegram, history
<1>5. ASSUME NEW u \in Updates, Handled(u) \/ Raises(u) \/ CannotRead(u) PROVE TypeOK'
  <2>1. drainer' \in Drainer
    BY <1>5 DEF Handled, Raises, CannotRead, Concludes, Drainer
  <2>2. handled' \in [Updates -> Nat]
    BY <1>5 DEF Handled, Raises, CannotRead, history
  <2>3. raised' \in [Updates -> Nat]
    BY <1>5 DEF Handled, Raises, CannotRead, history
  <2> QED BY <1>5, <2>1, <2>2, <2>3 DEF Handled, Raises, CannotRead, telegram, history
<1>6. ASSUME NEW u \in Updates, Mark(u) PROVE TypeOK'
  <2>1. row' \in [Updates -> Row]
    BY <1>6, RowsTyped DEF Mark
  <2>2. drainer' \in Drainer
    BY <1>6 DEF Mark, DrainerIdle, DrainerOff, Drainer
  <2> QED BY <1>6, <2>1, <2>2 DEF Mark, telegram, history
<1>7. CASE MarkRaises
  BY <1>2, <1>7 DEF MarkRaises, DatabaseError, Fault, DrainerOff, Drainer, telegram
<1>8. CASE DrainTimesOut
  <2>1. row' \in [Updates -> Row]
    <3>1. \A u \in Updates, verdict \in {"none", "done", "release", "failed"} :
            [row EXCEPT ![u] = Marked(@, verdict)] \in [Updates -> Row]
      BY RowsTyped
    <3>2. drainer.verdict \in {"none", "done", "release", "failed"}
      BY DEF Drainer
    <3>3. Oldest(drainer.batch) \subseteq Updates
      BY DEF Oldest, Drainer
    <3> QED BY <1>1, <1>8, <3>1, <3>2, <3>3 DEF DrainTimesOut
  <2>2. cut' \in [Updates -> Nat]
    BY <1>2, <1>8 DEF DrainTimesOut
  <2> QED BY <1>8, <2>1, <2>2 DEF DrainTimesOut, DrainerOff, Drainer, telegram
<1> QED BY <1>3, <1>4, <1>5, <1>6, <1>7, <1>8 DEF Draining, Dispatching

\* Every step keeps the types.
LEMMA StepTyped == TypeOK /\ [Next]_vars => TypeOK'
<1> SUFFICES ASSUME TypeOK, [Next]_vars PROVE TypeOK'
  OBVIOUS
<1> USE DEF TypeOK
<1>1. CASE Arrives
  BY <1>1 DEF Arrives, history
<1>2. CASE Polling
  BY <1>2, PollingTyped
<1>3. CASE Draining \/ MarkRaises \/ DrainTimesOut
  BY <1>3, DrainingTyped
<1>4. ASSUME NEW u \in Updates, LeaseLapses(u) PROVE TypeOK'
  <2>1. row' \in [Updates -> Row]
    BY <1>4, RowsTyped DEF LeaseLapses
  <2> QED BY <1>4, <2>1 DEF LeaseLapses, telegram, history
<1>5. CASE Boot
  <2>1. row' \in [Updates -> Row]
    BY <1>5, RowsTyped DEF Boot
  <2> QED BY <1>5, <2>1
      DEF Boot, RunnerStarts, PollerOff, Poller, DrainerIdle, DrainerOff, Drainer, telegram, history
<1>6. CASE Restart
  BY <1>6 DEF Restart, RunnerStarts, PollerOff, Poller, DrainerIdle, DrainerOff, Drainer, telegram, history
<1>7. CASE Stopped \/ Exit
  BY <1>7 DEF Stopped, Exit, telegram, history
<1>8. CASE Stop
  BY <1>8 DEF Stop, Fault, PollerOff, Poller, telegram, history
<1>9. CASE Crash
  BY <1>9 DEF Crash, CutOff, Fault, PollerOff, Poller, DrainerOff, Drainer, telegram
<1>10. CASE UNCHANGED vars
  BY <1>10 DEF vars, telegram, history
<1> QED BY <1>1, <1>2, <1>3, <1>4, <1>5, <1>6, <1>7, <1>8, <1>9, <1>10 DEF Next, Lifecycle

\* Every variable of the intake keeps its type.
THEOREM TypeCorrect == Spec => []TypeOK
  BY InitTyped, StepTyped, PTL DEF Spec

-----------------------------------------------------------------------------
(* Nothing is acknowledged that is not stored *)

\* A step of the drainer, of time, or of the process leaves every row there is.
LEMMA RowsRemain ==
    ASSUME TypeOK, [Next]_vars, NEW u \in Updates, row[u].state # "none"
    PROVE  row'[u].state # "none"
<1> USE DEF TypeOK
<1>1. row[u] \in Row
  OBVIOUS
<1>2. \A S \in SUBSET Open : Lease(S)[u].state # "none"
  BY <1>1 DEF Lease, Row
<1>3. ASSUME NEW w \in Updates, NEW verdict,
             row' = [row EXCEPT ![w] = Marked(@, verdict)]
      PROVE  row'[u].state # "none"
  BY <1>1, <1>3, RowsStay
<1>4. CASE UNCHANGED row
  BY <1>4
<1>5. CASE Polling
  BY <1>1, <1>4, <1>5, RowsStay
  DEF Polling, ResumeOffset, GetUpdates, TakeRaises, RememberOffset, Take
<1>6. CASE ClaimOpen
  BY <1>2, <1>6 DEF ClaimOpen
<1>7. CASE DrainerLeaves \/ MarkRaises
  BY <1>4, <1>7 DEF DrainerLeaves, MarkRaises
<1>8. CASE Dispatching
  BY <1>3, <1>4, <1>8 DEF Dispatching, Handled, Raises, CannotRead, Mark
<1>9. CASE DrainTimesOut
  <2>1. Oldest(drainer.batch) \subseteq Updates
    BY DEF Oldest, Drainer
  <2> QED BY <1>2, <1>3, <1>4, <1>9, <2>1 DEF DrainTimesOut
<1>10. ASSUME NEW w \in Updates, LeaseLapses(w) PROVE row'[u].state # "none"
  BY <1>1, <1>10 DEF LeaseLapses, Row
<1>11. CASE Lifecycle
  BY <1>1, <1>4, <1>11, RowsStay DEF Lifecycle, Boot, Restart, Stopped, Exit
<1>12. CASE Arrives \/ Stop \/ Crash \/ UNCHANGED vars
  BY <1>4, <1>12 DEF Arrives, Stop, Crash, vars
<1> QED BY <1>5, <1>6, <1>7, <1>8, <1>9, <1>10, <1>11, <1>12 DEF Next, Draining

\* The invariant holds at first: nothing has been told to Telegram.
LEMMA InitIntake == Init => IntakeInv
  BY InitTyped, TelegramInboxAssumption
  DEF Init, IntakeInv, StoredBelow, PollerOff, Updates

\* The poller's steps, which are the ones that move what Telegram is told.
LEMMA PollingIntake == IntakeInv /\ Polling => IntakeInv'
<1> SUFFICES ASSUME IntakeInv, Polling PROVE IntakeInv'
  OBVIOUS
<1>0. TypeOK /\ TypeOK' /\ \A u \in Updates : row[u].state # "none" => row'[u].state # "none"
  BY PollingTyped, RowsRemain DEF IntakeInv, Next
<1>1. CASE ResumeOffset
  BY <1>0, <1>1 DEF ResumeOffset, IntakeInv, StoredBelow, TypeOK, Poller, telegram
<1>2. CASE GetUpdates
  <2>1. StoredBelow(confirmed') /\ UNCHANGED <<row, cursor>>
    BY <1>2 DEF GetUpdates, Larger, IntakeInv, StoredBelow
  <2>2. poller'.offset = poller.offset
    BY <1>0, <1>2 DEF GetUpdates, TypeOK, Poller
  <2>3. ASSUME poller'.pc = "storing", NEW u \in Updates, u < poller'.top
        PROVE  u \in poller'.batch \/ row[u].state # "none"
    <3>1. u \in Nat /\ confirmed' \in Nat /\ arrived \in Nat
      BY <1>0, TelegramInboxAssumption DEF TypeOK, Updates
    <3>2. /\ poller'.top = arrived + 1
          /\ poller'.batch = {v \in Updates : confirmed' <= v /\ v <= arrived}
      BY <1>0, <1>2, <2>3 DEF GetUpdates, TypeOK, Poller
    <3>3. u <= arrived
      BY <2>3, <3>1, <3>2
    <3>4. CASE u < confirmed'
      BY <2>1, <3>4 DEF StoredBelow
    <3>5. CASE confirmed' <= u
      BY <3>2, <3>3, <3>5
    <3> QED BY <3>1, <3>4, <3>5
  <2> QED BY <1>0, <2>1, <2>2, <2>3 DEF IntakeInv, StoredBelow
<1>3. ASSUME NEW u \in Updates, Take(u) PROVE IntakeInv'
  <2>1. row'[u].state # "none"
    BY <1>0, <1>3, RowsStay DEF Take, TypeOK
  <2>2. \A v \in Updates : v < poller.top =>
            v \in poller.batch \ {u} \/ row'[v].state # "none"
    BY <1>0, <1>3, <2>1 DEF Take, IntakeInv
  <2>3. CASE poller.batch \ {u} = {}
    <3>1. poller'.offset = poller.top /\ poller'.pc = "remembering"
      BY <1>0, <1>3, <2>3 DEF Take, TypeOK, Poller
    <3>2. StoredBelow(poller.offset)'
      BY <2>2, <2>3, <3>1 DEF StoredBelow
    <3> QED BY <1>0, <1>3, <3>1, <3>2 DEF Take, IntakeInv, StoredBelow, telegram
  <2>4. CASE poller.batch \ {u} # {}
    <3>1. /\ poller'.offset = poller.offset /\ poller'.top = poller.top
          /\ poller'.batch = poller.batch \ {u}
      BY <1>0, <1>3, <2>4 DEF Take, TypeOK, Poller
    <3> QED BY <1>0, <1>3, <2>2, <3>1 DEF Take, IntakeInv, StoredBelow, telegram
  <2> QED BY <2>3, <2>4
<1>4. CASE TakeRaises
  BY <1>0, <1>4 DEF TakeRaises, IntakeInv, StoredBelow, TypeOK, Poller, telegram
<1>5. CASE RememberOffset
  BY <1>0, <1>5 DEF RememberOffset, Larger, IntakeInv, StoredBelow, TypeOK, Poller, telegram
<1> QED BY <1>1, <1>2, <1>3, <1>4, <1>5 DEF Polling

\* Every step keeps the invariant: outside the poller the offset only starts over.
LEMMA StepIntake == IntakeInv /\ [Next]_vars => IntakeInv'
<1> SUFFICES ASSUME IntakeInv, [Next]_vars PROVE IntakeInv'
  OBVIOUS
<1>0. TypeOK /\ TypeOK' /\ \A u \in Updates : row[u].state # "none" => row'[u].state # "none"
  BY StepTyped, RowsRemain DEF IntakeInv
<1>1. CASE Polling
  BY <1>1, PollingIntake
<1>2. ASSUME UNCHANGED <<confirmed, cursor, poller>> PROVE IntakeInv'
  BY <1>0, <1>2 DEF IntakeInv, StoredBelow
<1>3. ASSUME UNCHANGED <<confirmed, cursor>>, poller'.offset = 0, poller'.pc # "storing"
      PROVE  IntakeInv'
  <2>1. \A u \in Updates : ~(u < 0)
    BY TelegramInboxAssumption DEF Updates
  <2> QED BY <1>0, <1>3, <2>1 DEF IntakeInv, StoredBelow
<1>4. CASE Arrives
  BY <1>2, <1>4 DEF Arrives
<1>5. CASE Draining \/ MarkRaises \/ DrainTimesOut
  BY <1>2, <1>5 DEF Draining, ClaimOpen, DrainerLeaves, Dispatching, Handled, Raises,
     CannotRead, Mark, MarkRaises, DrainTimesOut, telegram
<1>6. ASSUME NEW u \in Updates, LeaseLapses(u) PROVE IntakeInv'
  BY <1>2, <1>6 DEF LeaseLapses, telegram
<1>7. CASE Stopped \/ Exit
  BY <1>2, <1>7 DEF Stopped, Exit, telegram
<1>8. CASE Boot \/ Restart
  BY <1>3, <1>8 DEF Boot, Restart, RunnerStarts, PollerOff, telegram
<1>9. CASE Stop \/ Crash
  BY <1>3, <1>9 DEF Stop, Crash, PollerOff, telegram
<1>10. CASE UNCHANGED vars
  BY <1>2, <1>10 DEF vars, telegram
<1> QED BY <1>1, <1>4, <1>5, <1>6, <1>7, <1>8, <1>9, <1>10 DEF Next, Lifecycle

\* Telegram forgets an update only when it is on disk, whatever part of a batch was
\* stored before an error, a stop or a crash (_take, remember_offset, _resume_offset).
THEOREM NothingForgottenUnstored == Spec => []AcknowledgedIsStored
<1>1. IntakeInv => AcknowledgedIsStored
  BY DEF IntakeInv, AcknowledgedIsStored
<1> QED BY <1>1, InitIntake, StepIntake, PTL DEF Spec

-----------------------------------------------------------------------------
(* An update is handled once *)

\* The drainer's copy of an update, and the one it has just been given a verdict on.
InHand(u) == u \in drainer.batch /\ drainer.pc \in {"feeding", "marking"}
BeingMarked(u) == drainer.pc = "marking" /\ u \in Oldest(drainer.batch)

\* What the dispatcher took is marked done, is about to be, or was cut off.
Accounted(u) ==
    \/ handled[u] <= cut[u]
    \/ /\ handled[u] <= cut[u] + 1
       /\ row[u].state = "done" \/ (BeingMarked(u) /\ drainer.verdict = "done")

\* No drainer outlives its process, and what one holds is leased to it.
DrainInv ==
    /\ process \in {"down", "stopped"} => drainer.pc = "off"
    /\ \A u \in Updates : InHand(u) => row[u].state = "leased"
    /\ \A u \in Updates : Accounted(u)

\* The drainer feeds one update at a time: the oldest is one.
LEMMA OneOldest ==
    ASSUME NEW S \in SUBSET Updates, NEW u \in Oldest(S), NEW w \in Oldest(S)
    PROVE  u = w
  BY DEF Oldest, Updates

\* A step that leaves the drainer to its work: whatever is leased or done stays so.
LEMMA DrainUndisturbed ==
    ASSUME DrainInv, UNCHANGED <<drainer, handled, cut>>,
           process' \in {"down", "stopped"} => drainer.pc = "off",
           \A u \in Updates : row[u].state \in {"leased", "done"} => row'[u].state = row[u].state
    PROVE  DrainInv'
<1>1. \A u \in Updates : (InHand(u))' <=> InHand(u)
  BY DEF InHand
<1>2. \A u \in Updates : (BeingMarked(u))' <=> BeingMarked(u)
  BY DEF BeingMarked
<1> QED BY <1>1, <1>2 DEF DrainInv, Accounted

\* A step after which nobody drains: what was handled and not marked is cut off.
LEMMA DrainGivenUp ==
    ASSUME TypeOK, DrainInv, UNCHANGED handled, drainer'.pc \in {"off", "idle"},
           process' \in {"down", "stopped"} => drainer'.pc = "off",
           CutOff \/ (UNCHANGED cut /\ drainer.pc # "marking"),
           \A u \in Updates : row[u].state = "done" => row'[u].state = "done"
    PROVE  DrainInv'
<1>1. \A u \in Updates : ~(InHand(u))'
  BY DEF InHand
<1>2. ASSUME NEW u \in Updates PROVE Accounted(u)'
  <2>1. Accounted(u) /\ handled[u] \in Nat /\ cut[u] \in Nat
    BY DEF DrainInv, TypeOK
  <2>2. CASE BeingMarked(u) /\ drainer.verdict = "done"
    <3>1. cut'[u] = cut[u] + 1
      BY <2>2 DEF BeingMarked, CutOff
    <3> QED BY <2>1, <3>1 DEF Accounted
  <2>3. CASE ~(BeingMarked(u) /\ drainer.verdict = "done")
    <3>1. cut'[u] = cut[u]
      BY <2>3 DEF BeingMarked, CutOff
    <3> QED BY <2>1, <2>3, <3>1 DEF Accounted
  <2> QED BY <2>2, <2>3
<1> QED BY <1>1, <1>2 DEF DrainInv

\* claim_open: the rows it leases were not done, and become the drainer's.
LEMMA ClaimDrains == TypeOK /\ DrainInv /\ ClaimOpen => DrainInv'
<1> SUFFICES ASSUME TypeOK, DrainInv, ClaimOpen PROVE DrainInv'
  OBVIOUS
<1>1. PICK S \in SUBSET Open :
        row' = Lease(S) /\ drainer' = [drainer EXCEPT !.pc = "feeding", !.batch = S]
  BY DEF ClaimOpen
<1>2. drainer'.pc = "feeding" /\ drainer'.batch = S
  BY <1>1 DEF TypeOK, Drainer
<1>3. \A u \in S : row'[u].state = "leased" /\ row[u].state # "done"
  BY <1>1 DEF Lease, Open, TypeOK, Row
<1>4. \A u \in Updates \ S : row'[u] = row[u]
  BY <1>1 DEF Lease
<1>5. \A u \in Updates : (InHand(u))' => row'[u].state = "leased"
  BY <1>2, <1>3 DEF InHand
<1>6. ASSUME NEW u \in Updates PROVE Accounted(u)'
  <2>1. Accounted(u) /\ ~BeingMarked(u) /\ UNCHANGED <<handled, cut>>
    BY DEF DrainInv, BeingMarked, ClaimOpen, history
  <2> QED BY <1>3, <1>4, <2>1 DEF Accounted
<1>7. process' = process /\ process \notin {"down", "stopped"}
  BY DEF ClaimOpen, DrainInv
<1> QED BY <1>5, <1>6, <1>7 DEF DrainInv

\* _feed: the dispatcher took the update, raised, or could not read it.
LEMMA FeedDrains ==
    ASSUME TypeOK, DrainInv, NEW u \in Updates, Handled(u) \/ Raises(u) \/ CannotRead(u)
    PROVE  DrainInv'
<1>1. /\ drainer.pc = "feeding" /\ u \in Oldest(drainer.batch)
      /\ drainer'.pc = "marking" /\ drainer'.batch = drainer.batch
      /\ Handled(u) => drainer'.verdict = "done"
      /\ UNCHANGED <<row, process, cut>>
  BY DEF Handled, Raises, CannotRead, Concludes, TypeOK, Drainer, history
<1>2. u \in drainer.batch
  BY <1>1 DEF Oldest
<1>3. \A w \in Updates : (InHand(w))' <=> InHand(w)
  BY <1>1 DEF InHand
<1>4. ASSUME NEW w \in Updates PROVE Accounted(w)'
  <2>1. Accounted(w) /\ ~BeingMarked(w) /\ handled[w] \in Nat /\ cut[w] \in Nat
    BY <1>1 DEF DrainInv, BeingMarked, TypeOK
  <2>2. CASE w = u /\ Handled(u)
    <3>1. handled'[w] = handled[w] + 1 /\ (BeingMarked(w))'
      BY <1>1, <2>2 DEF Handled, BeingMarked, TypeOK
    <3>2. handled[w] <= cut[w]
      BY <1>1, <1>2, <2>1, <2>2 DEF Accounted, DrainInv, InHand
    <3> QED BY <1>1, <2>1, <2>2, <3>1, <3>2 DEF Accounted
  <2>3. CASE ~(w = u /\ Handled(u))
    <3>1. handled'[w] = handled[w]
      BY <2>3 DEF Handled, Raises, CannotRead, history, TypeOK
    <3> QED BY <1>1, <2>1, <3>1 DEF Accounted
  <2> QED BY <2>2, <2>3
<1> QED BY <1>1, <1>3, <1>4 DEF DrainInv

\* mark_done, release, mark_failed: the verdict reaches the row of the update it is on.
LEMMA MarkDrains ==
    ASSUME TypeOK, DrainInv, NEW u \in Updates, Mark(u)
    PROVE  DrainInv'
<1>1. /\ drainer.pc = "marking" /\ u \in Oldest(drainer.batch) /\ u \in drainer.batch
      /\ drainer.batch \in SUBSET Updates
      /\ UNCHANGED <<process, handled, cut>>
  BY DEF Mark, TypeOK, Drainer, history, Oldest
<1>2. /\ drainer'.batch \subseteq drainer.batch \ {u}
      /\ drainer'.pc \in {"idle", "feeding"}
  BY DEF Mark, DrainerIdle, DrainerOff
<1>3. /\ row'[u] = Marked(row[u], drainer.verdict)
      /\ \A w \in Updates : w # u => row'[w] = row[w]
  BY DEF Mark, TypeOK
<1>4. \A w \in Updates : (InHand(w))' => row'[w].state = "leased"
  BY <1>1, <1>2, <1>3 DEF InHand, DrainInv
<1>5. ASSUME NEW w \in Updates PROVE Accounted(w)'
  <2>1. Accounted(w)
    BY DEF DrainInv
  <2>2. CASE w = u
    <3>1. row[u].state = "leased"
      BY <1>1 DEF DrainInv, InHand
    <3>2. drainer.verdict = "done" => row'[u].state = "done"
      BY <1>3 DEF Marked
    <3> QED BY <1>1, <2>1, <2>2, <3>1, <3>2 DEF Accounted
  <2>3. CASE w # u
    <3>1. ~BeingMarked(w)
      BY <1>1, <2>3, OneOldest DEF BeingMarked
    <3> QED BY <1>1, <1>3, <2>1, <2>3, <3>1 DEF Accounted
  <2> QED BY <2>2, <2>3
<1>6. process' \notin {"down", "stopped"}
  BY <1>1 DEF DrainInv
<1> QED BY <1>4, <1>5, <1>6 DEF DrainInv

\* Nothing but a mark, a lease or a requeue writes a row, and none undoes a done one.
LEMMA DoneStays ==
    ASSUME TypeOK, DrainInv, [Next]_vars, NEW u \in Updates, row[u].state = "done"
    PROVE  row'[u].state = "done"
<1>1. row[u] \in Row /\ ~InHand(u)
  BY DEF TypeOK, DrainInv
<1>2. \A S \in SUBSET Open : Lease(S)[u].state = "done"
  BY DEF Lease, Open
<1>3. ASSUME drainer.pc \in {"feeding", "marking"}, NEW w \in Oldest(drainer.batch), NEW verdict,
             row' = [row EXCEPT ![w] = Marked(@, verdict)]
      PROVE  row'[u].state = "done"
  BY <1>1, <1>3 DEF InHand, Oldest, TypeOK
<1>4. CASE UNCHANGED row
  BY <1>4
<1>5. CASE Polling
  BY <1>1, <1>4, <1>5 DEF Polling, ResumeOffset, GetUpdates, TakeRaises, RememberOffset, Take,
     Stored, TypeOK
<1>6. CASE Draining
  BY <1>2, <1>3, <1>4, <1>6 DEF Draining, ClaimOpen, DrainerLeaves, Dispatching, Handled, Raises,
     CannotRead, Mark
<1>7. CASE DrainTimesOut
  BY <1>2, <1>3, <1>4, <1>7 DEF DrainTimesOut
<1>8. ASSUME NEW w \in Updates, LeaseLapses(w) PROVE row'[u].state = "done"
  BY <1>1, <1>8 DEF LeaseLapses, TypeOK
<1>9. CASE Lifecycle
  BY <1>4, <1>9 DEF Lifecycle, Boot, Restart, Stopped, Exit, Requeued
<1>10. CASE Arrives \/ MarkRaises \/ Stop \/ Crash \/ UNCHANGED vars
  BY <1>4, <1>10 DEF Arrives, MarkRaises, Stop, Crash, vars
<1> QED BY <1>5, <1>6, <1>7, <1>8, <1>9, <1>10 DEF Next

\* At first nothing is handled and nobody drains.
LEMMA InitDrains == Init => DrainInv
  BY DEF Init, DrainInv, InHand, Accounted, DrainerOff

\* Every step keeps the account.
LEMMA StepDrains == TypeOK /\ DrainInv /\ [Next]_vars => DrainInv'
<1> SUFFICES ASSUME TypeOK, DrainInv, [Next]_vars PROVE DrainInv'
  OBVIOUS
<1>0. \A u \in Updates : row[u].state = "done" => row'[u].state = "done"
  BY DoneStays
<1>1. CASE Arrives \/ UNCHANGED vars
  BY <1>1, DrainUndisturbed DEF Arrives, vars, history, DrainInv
<1>2. CASE Polling
  <2>1. UNCHANGED <<drainer, process, handled, cut>>
    BY <1>2 DEF Polling, ResumeOffset, GetUpdates, TakeRaises, RememberOffset, Take, history
  <2>2. \A u \in Updates : row[u].state = "leased" => row'[u].state = "leased"
    BY <1>2 DEF Polling, ResumeOffset, GetUpdates, TakeRaises, RememberOffset, Take, Stored, TypeOK
  <2> QED BY <1>0, <2>1, <2>2, DrainUndisturbed DEF DrainInv
<1>3. CASE Dispatching
  BY <1>3, FeedDrains, MarkDrains DEF Dispatching
<1>4. CASE ClaimOpen
  BY <1>4, ClaimDrains
<1>5. CASE DrainerLeaves
  BY <1>0, <1>5, DrainGivenUp DEF DrainerLeaves, DrainerOff, history
<1>6. CASE MarkRaises
  BY <1>0, <1>6, DrainGivenUp DEF MarkRaises, DrainerOff
<1>7. CASE DrainTimesOut
  BY <1>0, <1>7, DrainGivenUp DEF DrainTimesOut, DrainerOff
<1>8. CASE Crash
  BY <1>0, <1>8, DrainGivenUp DEF Crash, DrainerOff
<1>9. CASE Boot \/ Restart
  BY <1>0, <1>9, DrainGivenUp
  DEF Boot, Restart, RunnerStarts, DrainerIdle, DrainerOff, history, DrainInv
<1>10. CASE Stop \/ Stopped \/ Exit
  BY <1>10, DrainUndisturbed DEF Stop, Stopped, Exit, history, DrainInv
<1>11. ASSUME NEW u \in Updates, LeaseLapses(u) PROVE DrainInv'
  <2>1. \A w \in Updates : row'[w].state = row[w].state
    BY <1>11 DEF LeaseLapses, TypeOK, Row
  <2> QED BY <1>11, <2>1, DrainUndisturbed DEF LeaseLapses, history, DrainInv
<1> QED BY <1>1, <1>2, <1>3, <1>4, <1>5, <1>6, <1>7, <1>8, <1>9, <1>10, <1>11
    DEF Next, Lifecycle, Draining

\* The dispatcher takes an update a second time only when a crash, a stop or a database
\* error came between the first time and its mark (claim_open, mark_done, requeue_leased).
THEOREM NothingHandledTwice == Spec => []HandledOnce
<1>1. TypeOK /\ DrainInv => HandledOnce
  BY DEF TypeOK, DrainInv, Accounted, HandledOnce
<1> QED BY <1>1, TypeCorrect, InitDrains, StepDrains, PTL DEF Spec

-----------------------------------------------------------------------------
(* Updates are handled in the order they came *)

\* Rows appear in the order of the updates, whatever part of a batch is on disk.
OrderInv ==
    /\ \A u, v \in Updates : v < u /\ row[u].state # "none" => row[v].state # "none"
    /\ poller.pc = "storing" => \A u \in poller.batch : u < poller.top

\* A drainer has all that is leased in its hands; what is older than something there
\* is finished or was handed back; only what raised is handed back.
TurnInv ==
    /\ drainer.pc # "off" => \A u \in Updates : row[u].state = "leased" => InHand(u)
    /\ \A u, v \in Updates : InHand(u) /\ ~InHand(v) /\ v < u => Finished(v) \/ raised[v] > 0
    /\ drainer.pc = "marking" => drainer.verdict \in {"done", "release", "failed"}
    /\ drainer.verdict = "release" => \A u \in Updates : BeingMarked(u) => raised[u] > 0

\* The drainer makes no row: it leases and marks the ones there are.
LEMMA DrainingRows ==
    ASSUME TypeOK, DrainInv, Draining \/ MarkRaises \/ DrainTimesOut,
           NEW u \in Updates, row[u].state = "none"
    PROVE  row'[u].state = "none"
<1>1. ~InHand(u)
  BY DEF DrainInv
<1>2. \A S \in SUBSET Open : Lease(S)[u].state = "none"
  BY DEF Lease, Open
<1>3. ASSUME drainer.pc \in {"feeding", "marking"}, NEW w \in Oldest(drainer.batch), NEW verdict,
             row' = [row EXCEPT ![w] = Marked(@, verdict)]
      PROVE  row'[u].state = "none"
  BY <1>1, <1>3 DEF InHand, Oldest, TypeOK
<1>4. CASE UNCHANGED row
  BY <1>4
<1>5. CASE Draining
  BY <1>2, <1>3, <1>4, <1>5 DEF Draining, ClaimOpen, DrainerLeaves, Dispatching, Handled, Raises,
     CannotRead, Mark
<1>6. CASE DrainTimesOut
  BY <1>2, <1>3, <1>4, <1>6 DEF DrainTimesOut
<1>7. CASE MarkRaises
  BY <1>4, <1>7 DEF MarkRaises
<1> QED BY <1>5, <1>6, <1>7

\* Storing the oldest update of a batch leaves no gap below it (_take).
LEMMA StepOrders == IntakeInv /\ DrainInv /\ OrderInv /\ [Next]_vars => OrderInv'
<1> SUFFICES ASSUME IntakeInv, DrainInv, OrderInv, [Next]_vars PROVE OrderInv'
  OBVIOUS
<1>0. TypeOK /\ \A u \in Updates : row[u].state # "none" => row'[u].state # "none"
  BY RowsRemain DEF IntakeInv
<1>1. ASSUME \A u \in Updates : row'[u].state # "none" => row[u].state # "none",
             poller' = poller \/ poller'.pc # "storing"
      PROVE  OrderInv'
  BY <1>0, <1>1 DEF OrderInv
<1>2. CASE ResumeOffset \/ TakeRaises \/ RememberOffset
  BY <1>0, <1>1, <1>2 DEF ResumeOffset, TakeRaises, RememberOffset, TypeOK, Poller
<1>3. CASE GetUpdates
  <2>1. CASE poller' = poller
    BY <1>1, <1>3, <2>1 DEF GetUpdates
  <2>2. CASE poller' # poller
    <3>1. /\ poller'.batch = {u \in Updates : confirmed' <= u /\ u <= arrived}
          /\ poller'.top = arrived + 1
      BY <1>0, <1>3, <2>2 DEF GetUpdates, TypeOK, Poller
    <3>2. \A u \in poller'.batch : u < poller'.top
      BY <1>0, <3>1 DEF TypeOK, Updates
    <3> QED BY <1>3, <3>2 DEF GetUpdates, OrderInv
  <2> QED BY <2>1, <2>2
<1>4. ASSUME NEW u \in Updates, Take(u) PROVE OrderInv'
  <2>1. u \in poller.batch /\ poller.batch \subseteq Updates /\ poller.top \in Nat
    BY <1>0, <1>4 DEF Take, Oldest, TypeOK, Poller
  <2>2. ASSUME NEW v \in Updates, v < u PROVE row[v].state # "none"
    <3>1. v \notin poller.batch
      BY <1>4, <2>1, <2>2 DEF Take, Oldest, Updates
    <3>2. v < poller.top
      BY <1>4, <2>1, <2>2, TelegramInboxAssumption DEF Take, OrderInv, Updates
    <3> QED BY <1>4, <3>1, <3>2 DEF Take, IntakeInv
  <2>3. \A v \in Updates : v # u => row'[v] = row[v]
    BY <1>0, <1>4 DEF Take, TypeOK
  <2>4. \A w, v \in Updates : v < w /\ row'[w].state # "none" => row'[v].state # "none"
    BY <1>0, <2>2, <2>3 DEF OrderInv
  <2>5. poller'.pc = "storing" => \A w \in poller'.batch : w < poller'.top
    BY <1>0, <1>4 DEF Take, TypeOK, Poller, OrderInv
  <2> QED BY <2>4, <2>5 DEF OrderInv
<1>5. CASE Draining \/ MarkRaises \/ DrainTimesOut
  <2>1. UNCHANGED poller
    BY <1>5 DEF Draining, ClaimOpen, DrainerLeaves, Dispatching, Handled, Raises, CannotRead,
       Mark, MarkRaises, DrainTimesOut
  <2>2. \A u \in Updates : row'[u].state # "none" => row[u].state # "none"
    BY <1>0, <1>5, DrainingRows
  <2> QED BY <1>1, <2>1, <2>2
<1>6. ASSUME NEW u \in Updates, LeaseLapses(u) PROVE OrderInv'
  <2>1. \A w \in Updates : row'[w].state = row[w].state
    BY <1>0, <1>6 DEF LeaseLapses, TypeOK, Row
  <2> QED BY <1>1, <1>6, <2>1 DEF LeaseLapses
<1>7. CASE Boot \/ Restart
  BY <1>1, <1>7 DEF Boot, Restart, RunnerStarts, PollerOff, Requeued
<1>8. CASE Arrives \/ Stop \/ Stopped \/ Exit \/ Crash \/ UNCHANGED vars
  BY <1>1, <1>8 DEF Arrives, Stop, Stopped, Exit, Crash, PollerOff, vars
<1> QED BY <1>2, <1>3, <1>4, <1>5, <1>6, <1>7, <1>8 DEF Next, Polling, Lifecycle

\* A step that leaves the drainer to its work: rows keep their state, or are new.
LEMMA TurnUndisturbed ==
    ASSUME DrainInv, OrderInv, TurnInv, UNCHANGED <<drainer, raised>>,
           \A u \in Updates : \/ row'[u].state = row[u].state
                              \/ row[u].state = "none" /\ row'[u].state = "received"
    PROVE  TurnInv'
<1>1. \A u \in Updates : ((InHand(u))' <=> InHand(u)) /\ ((BeingMarked(u))' <=> BeingMarked(u))
  BY DEF InHand, BeingMarked
<1>2. \A u, v \in Updates : InHand(u) /\ v < u => row'[v].state = row[v].state
  BY DEF DrainInv, OrderInv
<1> QED BY <1>1, <1>2 DEF TurnInv, Finished

\* A step after which nobody drains, or a drainer starts where nothing is leased.
LEMMA TurnOver ==
    ASSUME \/ drainer'.pc = "off"
           \/ drainer'.pc = "idle" /\ \A u \in Updates : row'[u].state # "leased"
    PROVE  TurnInv'
  BY DEF TurnInv, InHand, BeingMarked

\* claim_open takes the oldest rows that are open, and none but its own are leased.
LEMMA ClaimInTurn == TypeOK /\ OrderInv /\ TurnInv /\ ClaimOpen => TurnInv'
<1> SUFFICES ASSUME TypeOK, OrderInv, TurnInv, ClaimOpen PROVE TurnInv'
  OBVIOUS
<1>1. PICK S \in SUBSET Open :
        Claimable(S) /\ row' = Lease(S) /\ drainer' = [drainer EXCEPT !.pc = "feeding", !.batch = S]
  BY DEF ClaimOpen
<1>2. drainer'.pc = "feeding" /\ drainer'.batch = S /\ drainer.pc = "idle" /\ UNCHANGED raised
  BY <1>1 DEF ClaimOpen, TypeOK, Drainer, history
<1>3. \A u \in Updates : row[u].state # "leased"
  BY <1>2 DEF TurnInv, InHand
<1>4. \A u \in Updates \ S : row'[u] = row[u]
  BY <1>1 DEF Lease
<1>5. \A u \in Updates : row'[u].state = "leased" => (InHand(u))'
  BY <1>2, <1>3, <1>4 DEF InHand
<1>6. ASSUME NEW u \in Updates, NEW v \in Updates, (InHand(u))', ~(InHand(v))', v < u
      PROVE  (Finished(v) \/ raised[v] > 0)'
  <2>1. u \in S /\ v \notin S
    BY <1>2, <1>6 DEF InHand
  <2>2. v \notin Open
    BY <1>1, <1>6, <2>1 DEF Claimable, Updates
  <2>3. row[v].state # "received" /\ row[v].state # "leased"
    BY <1>3, <2>2 DEF Open
  <2>4. row[v].state # "none"
    BY <1>1, <1>6, <2>1 DEF OrderInv, Open
  <2>5. row[v].state \in {"done", "failed"}
    BY <2>3, <2>4 DEF TypeOK, Row
  <2> QED BY <1>4, <2>1, <2>5 DEF Finished
<1> QED BY <1>2, <1>5, <1>6 DEF TurnInv, BeingMarked

\* _feed: what gets the verdict "release" has raised.
LEMMA FeedInTurn ==
    ASSUME TypeOK, TurnInv, NEW u \in Updates, Handled(u) \/ Raises(u) \/ CannotRead(u)
    PROVE  TurnInv'
<1>1. /\ drainer.pc = "feeding" /\ u \in Oldest(drainer.batch)
      /\ drainer'.pc = "marking" /\ drainer'.batch = drainer.batch
      /\ UNCHANGED row
  BY DEF Handled, Raises, CannotRead, Concludes, TypeOK, Drainer
<1>2. /\ drainer'.verdict \in {"done", "release", "failed"}
      /\ drainer'.verdict = "release" => Raises(u)
  BY DEF Handled, Raises, CannotRead, Concludes, TypeOK, Drainer
<1>3. \A w \in Updates : (InHand(w))' <=> InHand(w)
  BY <1>1 DEF InHand
<1>4. \A w \in Updates : raised[w] > 0 => raised'[w] > 0
  BY DEF Handled, Raises, CannotRead, history, TypeOK
<1>5. Raises(u) => raised'[u] > 0
  BY DEF Raises, TypeOK
<1>6. \A w \in Updates : (BeingMarked(w))' => w = u
  BY <1>1, OneOldest DEF BeingMarked, TypeOK, Drainer
<1> QED BY <1>1, <1>2, <1>3, <1>4, <1>5, <1>6 DEF TurnInv, Finished

\* mark_done and mark_failed finish a row, and no mark leaves it leased.
LEMMA VerdictTells ==
    ASSUME NEW r, NEW verdict
    PROVE  /\ verdict \in {"done", "failed"} => Marked(r, verdict).state \in {"done", "failed"}
           /\ Marked(r, verdict).state # "leased"
<1>1. CASE verdict = "done"
  BY <1>1 DEF Marked
<1>2. CASE verdict = "failed"
  BY <1>2 DEF Marked
<1>3. CASE verdict \notin {"done", "failed"}
  BY <1>3 DEF Marked
<1> QED BY <1>1, <1>2, <1>3

\* A mark finishes the oldest update in hand, or hands back one that raised.
LEMMA MarkInTurn ==
    ASSUME TypeOK, DrainInv, TurnInv, NEW u \in Updates, Mark(u)
    PROVE  TurnInv'
<1>1. /\ drainer.pc = "marking" /\ u \in Oldest(drainer.batch) /\ u \in drainer.batch
      /\ UNCHANGED raised
  BY DEF Mark, TypeOK, Drainer, history, Oldest
<1>2. \/ /\ drainer.batch \ {u} = {} /\ drainer' = DrainerIdle
      \/ drainer' = [pc |-> "feeding", batch |-> drainer.batch \ {u}, verdict |-> "none"]
  BY DEF Mark
<1>3. /\ row'[u] = Marked(row[u], drainer.verdict)
      /\ \A w \in Updates : w # u => row'[w] = row[w]
  BY DEF Mark, TypeOK
<1>4. \A w \in Updates : (InHand(w))' <=> (InHand(w) /\ w # u)
  BY <1>1, <1>2 DEF InHand, DrainerIdle, DrainerOff
<1>5. /\ drainer.verdict \in {"done", "failed"} => row'[u].state \in {"done", "failed"}
      /\ row'[u].state # "leased"
  BY <1>3, VerdictTells
<1>6. Finished(u)' \/ raised'[u] > 0
  <2>1. BeingMarked(u) /\ drainer.verdict \in {"done", "release", "failed"}
    BY <1>1 DEF BeingMarked, TurnInv
  <2> QED BY <1>1, <1>5, <2>1 DEF TurnInv, Finished
<1>7. \A w \in Updates : row'[w].state = "leased" => (InHand(w))'
  BY <1>1, <1>3, <1>4, <1>5 DEF TurnInv
<1>8. \A w, v \in Updates : (InHand(w))' /\ ~(InHand(v))' /\ v < w => (Finished(v) \/ raised[v] > 0)'
  BY <1>1, <1>3, <1>4, <1>6 DEF TurnInv, Finished
<1>9. \A w \in Updates : ~(BeingMarked(w))' /\ drainer'.pc # "marking"
  BY <1>2 DEF BeingMarked, DrainerIdle, DrainerOff
<1> QED BY <1>7, <1>8, <1>9 DEF TurnInv

\* Every step keeps the turn, in a process that starts no runner twice.
LEMMA StepTurns ==
    ASSUME ~RunnerRestarts, TypeOK, DrainInv, OrderInv, TurnInv, [Next]_vars
    PROVE  TurnInv'
<1>1. CASE Arrives \/ Stop \/ Stopped \/ Exit \/ UNCHANGED vars
  BY <1>1, TurnUndisturbed DEF Arrives, Stop, Stopped, Exit, vars, history
<1>2. CASE Polling
  <2>1. UNCHANGED <<drainer, raised>>
    BY <1>2 DEF Polling, ResumeOffset, GetUpdates, TakeRaises, RememberOffset, Take, history
  <2>2. \A u \in Updates : row'[u] = row[u] \/ row'[u] = Stored(row[u])
    BY <1>2 DEF Polling, ResumeOffset, GetUpdates, TakeRaises, RememberOffset, Take, TypeOK
  <2>3. \A u \in Updates : \/ Stored(row[u]) = row[u]
                           \/ row[u].state = "none" /\ Stored(row[u]).state = "received"
    BY DEF Stored, TypeOK, Row
  <2> QED BY <2>1, <2>2, <2>3, TurnUndisturbed
<1>3. CASE ClaimOpen
  BY <1>3, ClaimInTurn
<1>4. CASE Dispatching
  BY <1>4, FeedInTurn, MarkInTurn DEF Dispatching
<1>5. CASE DrainerLeaves \/ MarkRaises \/ DrainTimesOut \/ Crash
  BY <1>5, TurnOver DEF DrainerLeaves, MarkRaises, DrainTimesOut, Crash, DrainerOff
<1>6. CASE Boot
  <2>1. \A u \in Updates : row'[u].state # "leased"
    BY <1>6 DEF Boot, Requeued, TypeOK, Row
  <2> QED BY <1>6, <2>1, TurnOver DEF Boot, RunnerStarts, DrainerIdle, DrainerOff
<1>7. CASE Restart
  BY <1>7 DEF Restart
<1>8. ASSUME NEW u \in Updates, LeaseLapses(u) PROVE TurnInv'
  <2>1. \A w \in Updates : row'[w].state = row[w].state
    BY <1>8 DEF LeaseLapses, TypeOK, Row
  <2> QED BY <1>8, <2>1, TurnUndisturbed DEF LeaseLapses, history
<1> QED BY <1>1, <1>2, <1>3, <1>4, <1>5, <1>6, <1>7, <1>8 DEF Next, Lifecycle, Draining

\* Only the dispatcher adds to what is handled, and it takes the oldest in hand.
LEMMA StepHandlesInTurn ==
    ASSUME TypeOK, TurnInv, [Next]_vars, NEW u \in Updates, NEW v \in Updates,
           v < u, handled'[u] > handled[u]
    PROVE  Finished(v) \/ raised[v] > 0
<1>1. Handled(u)
  <2>1. handled' # handled
    BY DEF TypeOK
  <2>2. PICK w \in Updates : Handled(w)
    BY <2>1 DEF Next, vars, history, Arrives, Polling, ResumeOffset, GetUpdates, TakeRaises,
       RememberOffset, Take, Draining, ClaimOpen, DrainerLeaves, Dispatching, Raises, CannotRead,
       Mark, MarkRaises, LeaseLapses, Lifecycle, Boot, Restart, Stopped, Exit, Stop,
       DrainTimesOut, Crash
  <2>3. w = u
    BY <2>2 DEF Handled, TypeOK
  <2> QED BY <2>2, <2>3
<1>2. InHand(u) /\ ~InHand(v)
  BY <1>1 DEF Handled, InHand, Oldest, TypeOK, Drainer, Updates
<1> QED BY <1>2 DEF TurnInv

\* Updates are handled in the order they came, in a process that starts no runner a
\* second time: an older one is finished, or was handed back because it raised
\* (_process_inbox, claim_open, requeue_leased).
THEOREM HandledInOrder == ASSUME ~RunnerRestarts PROVE Spec => HandledInTurn
<1> DEFINE Inv == IntakeInv /\ DrainInv /\ OrderInv /\ TurnInv
<1>1. Init => Inv
  <2>1. Init => OrderInv /\ TurnInv
    BY DEF Init, OrderInv, TurnInv, NoRow, PollerOff, DrainerOff, InHand, BeingMarked
  <2> QED BY <2>1, InitIntake, InitDrains
<1>2. Inv /\ [Next]_vars => Inv'
  BY StepIntake, StepDrains, StepOrders, StepTurns DEF IntakeInv
<1>3. Inv /\ [Next]_vars
        => [\A u, v \in Updates :
              v < u /\ handled'[u] > handled[u] /\ row[v].state # "none"
              => Finished(v) \/ raised[v] > 0]_vars
  BY StepHandlesInTurn DEF IntakeInv
<1> QED BY <1>1, <1>2, <1>3, PTL DEF Spec, HandledInTurn
=============================================================================
