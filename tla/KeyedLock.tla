----------------------------- MODULE KeyedLock -----------------------------
(***************************************************************************)
(* One lock per key, made by the first task that asks for it and dropped   *)
(* by the last one that leaves (routing/keyed_lock.py).                    *)
(*                                                                         *)
(* Lock objects have an identity: a task that still waits on an object the *)
(* map has dropped, beside one that holds its successor, is the hazard.    *)
(* The object itself is asyncio.Lock: one holder, waiters in turn.  The    *)
(* counter kept beside it is represented by the set of tasks it counts.    *)
(***************************************************************************)
EXTENDS Naturals, Sequences, FiniteSets

CONSTANTS
    Keys, Tasks,
    Objects,  \* enough identities for the locks that exist at one time
    Nobody    \* no task, no object, no key

ASSUME KeyedLockAssumption == Nobody \notin Tasks \cup Objects \cup Keys

VARIABLES
    locks,   \* KeyedLock._locks: the object filed under a key
    users,   \* the tasks an object's counter counts
    holder,  \* who holds an object
    queue,   \* who waits for an object, in turn
    asked    \* the key a task has asked for, for as long as it is in hold

lockVars == <<locks, users, holder, queue, asked>>

LocksInit ==
    /\ locks = [k \in Keys |-> Nobody]
    /\ users = [o \in Objects |-> {}]
    /\ holder = [o \in Objects |-> Nobody]
    /\ queue = [o \in Objects |-> << >>]
    /\ asked = [t \in Tasks |-> Nobody]

Outside(t) == asked[t] = Nobody
Holds(t) == \E o \in Objects : holder[o] = t
Garbage(o) == users[o] = {} /\ \A k \in Keys : locks[k] # o

-----------------------------------------------------------------------------
(* hold *)

\* The object a task asking for k is given: the one filed, or a new one.
Given(k) == IF locks[k] # Nobody THEN locks[k] ELSE CHOOSE o \in Objects : Garbage(o)

\* Up to the await: find or make, count, and take the lock if nobody wants it.
Enter(t, k) ==
    /\ Outside(t)
    /\ locks[k] = Nobody => \E o \in Objects : Garbage(o)
    /\ asked' = [asked EXCEPT ![t] = k]
    /\ LET o == Given(k) IN
         /\ locks' = [locks EXCEPT ![k] = o]
         /\ users' = [users EXCEPT ![o] = @ \cup {t}]
         /\ \/ /\ holder[o] = Nobody /\ queue[o] = << >>
               /\ holder' = [holder EXCEPT ![o] = t] /\ UNCHANGED queue
            \/ /\ holder[o] # Nobody \/ queue[o] # << >>
               /\ queue' = [queue EXCEPT ![o] = Append(@, t)] /\ UNCHANGED holder

\* The first waiter of a free lock wakes up with it.
Granted(t) ==
    /\ \E o \in Objects :
         /\ holder[o] = Nobody /\ queue[o] # << >> /\ Head(queue[o]) = t
         /\ holder' = [holder EXCEPT ![o] = t]
         /\ queue' = [queue EXCEPT ![o] = Tail(@)]
    /\ UNCHANGED <<locks, users, asked>>

\* The finally: count down, and forget the key when nobody is counted any more.
BadForgotten(o, left) == [k \in Keys |-> IF locks[k] = o THEN Nobody ELSE locks[k]]
Forgotten(o, left) ==
    [k \in Keys |-> IF locks[k] = o /\ left = {} THEN Nobody ELSE locks[k]]

CountedDown(t, o) ==
    /\ asked' = [asked EXCEPT ![t] = Nobody]
    /\ users' = [users EXCEPT ![o] = @ \ {t}]
    /\ locks' = Forgotten(o, users[o] \ {t})

\* The body is left, by its end or by an exception: release, then the finally.
Leave(t) ==
    /\ \E o \in Objects :
         /\ holder[o] = t
         /\ holder' = [holder EXCEPT ![o] = Nobody]
         /\ CountedDown(t, o)
    /\ UNCHANGED queue

Without(q, i) == [j \in 1..(Len(q) - 1) |-> IF j < i THEN q[j] ELSE q[j + 1]]

\* A waiter is cancelled; a wake-up it may have had passes to the next.
Cancelled(t) ==
    /\ \E o \in Objects : \E i \in DOMAIN queue[o] :
         /\ queue[o][i] = t
         /\ queue' = [queue EXCEPT ![o] = Without(@, i)]
         /\ CountedDown(t, o)
    /\ UNCHANGED holder

LockNext == \E t \in Tasks : \/ \E k \in Keys : Enter(t, k)
                             \/ Granted(t) \/ Leave(t) \/ Cancelled(t)

LockSpec == LocksInit /\ [][LockNext]_lockVars

-----------------------------------------------------------------------------
(* Properties *)

\* Two tasks inside the lock of one key are one task, whoever was cancelled while it
\* waited and whenever the lock was dropped and made again (KeyedLock.hold).
MutualExclusion ==
    \A t, u \in Tasks : Holds(t) /\ Holds(u) /\ asked[t] = asked[u] => t = u

\* The map does not outgrow the work: a key with a lock has a task that asked for it
\* (KeyedLock: "no map that grows for ever").
NoLockLeft == \A k \in Keys : locks[k] # Nobody => \E t \in Tasks : asked[t] = k
=============================================================================
